---------------------------- MODULE Spec2Model ----------------------------
(***************************************************************************)
(* The text-model registry (ModelServiceImpl), its entries (ModelData) and *)
(* the marker-to-decoration translator (ModelMarkerHandler) of             *)
(* src/common/services/modelServiceImpl.ts.                                *)
(*                                                                         *)
(* The handlers of the service are operators from a state record to a      *)
(* state record, so that the synchronous calls one handler makes into      *)
(* another (dispose -> bulk event -> _onModelEvents -> _onModelDisposing   *)
(* -> _cleanUp -> marker service -> _handleMarkerChange) compose as they   *)
(* do in the code.  An action applies one handler to the current state and *)
(* commits the record it returns.                                          *)
(*                                                                         *)
(* The collaborators the service consumes and that are not part of the     *)
(* source tree (the text buffer `Model`, `Range`, the marker service, the  *)
(* promise of a mode) are modelled from their contract.                    *)
(***************************************************************************)
EXTENDS Integers, Sequences, FiniteSets

\* ------------------------------------------------------------------ bounds

\* Number of Model objects ever constructed in one run.
MaxModels == 2
\* Longest marker list one owner sets for one resource.
MaxOwnerMarkers == 2
\* Mode promises that may be pending at once.
MaxPending == 1
\* Longest line of the buffers the translator is exercised on.
MaxLineLen == 3
\* Calls of the service's dispose() in one run.
MaxDisposeCalls == 2
\* Longest batch of events a buffer hands its listeners.
MaxBatchLen == 3
\* Calls of updateOptions of the embedded editor in one run.
MaxUpdates == 2

\* Number.MAX_VALUE, the "unbounded" end column of a whole-line marker.
MAX_VALUE == 1000000
\* markerService.read({ resource, take: 500 })
MARKER_TAKE == 500
\* DEFAULT_INDENTATION.tabSize
DEFAULT_TAB_SIZE == 4

\* ------------------------------------------------------- characters, text

WhitespaceChars == {" ", "\t"}
\* the separators of the default word definition that the alphabet uses
WordSeparators == {".", ",", ";", "(", ")"}

IsWhitespace(c) == c \in WhitespaceChars
IsWordChar(c) == c \notin WhitespaceChars /\ c \notin WordSeparators

Min(S) == CHOOSE x \in S : \A y \in S : x <= y
Max(S) == CHOOSE x \in S : \A y \in S : x >= y

\* ------------------------------------------------------------------ Range

\* new Range(...): the constructor orders its two end points.
Range(sl, sc, el, ec) ==
    IF sl > el \/ (sl = el /\ sc > ec)
    THEN [startLineNumber |-> el, startColumn |-> ec,
          endLineNumber |-> sl, endColumn |-> sc]
    ELSE [startLineNumber |-> sl, startColumn |-> sc,
          endLineNumber |-> el, endColumn |-> ec]

Range_isEmpty(r) ==
    r.startLineNumber = r.endLineNumber /\ r.startColumn = r.endColumn

\* ------------------------------------------- the buffer's text queries
\* `lines` is the buffer's content: a non-empty sequence of lines, each a
\* sequence of characters.

getLineCount(lines) == Len(lines)

LegalLine(lines, lineNumber) == lineNumber >= 1 /\ lineNumber <= Len(lines)

getLineMaxColumn(lines, lineNumber) == Len(lines[lineNumber]) + 1

\* strings.firstNonWhitespaceIndex + 1, 0 when the line has none
getLineFirstNonWhitespaceColumn(lines, lineNumber) ==
    LET line == lines[lineNumber]
        idx == {i \in 1..Len(line) : ~IsWhitespace(line[i])}
    IN IF idx = {} THEN 0 ELSE Min(idx)

\* strings.lastNonWhitespaceIndex + 2, 0 when the line has none
getLineLastNonWhitespaceColumn(lines, lineNumber) ==
    LET line == lines[lineNumber]
        idx == {i \in 1..Len(line) : ~IsWhitespace(line[i])}
    IN IF idx = {} THEN 0 ELSE Max(idx) + 1

validatePosition(lines, lineNumber, column) ==
    IF lineNumber < 1 THEN [lineNumber |-> 1, column |-> 1]
    ELSE IF lineNumber > Len(lines)
    THEN [lineNumber |-> Len(lines), column |-> getLineMaxColumn(lines, Len(lines))]
    ELSE IF column <= 1 THEN [lineNumber |-> lineNumber, column |-> 1]
    ELSE IF column >= getLineMaxColumn(lines, lineNumber)
    THEN [lineNumber |-> lineNumber, column |-> getLineMaxColumn(lines, lineNumber)]
    ELSE [lineNumber |-> lineNumber, column |-> column]

validateRange(lines, r) ==
    LET s == validatePosition(lines, r.startLineNumber, r.startColumn)
        e == validatePosition(lines, r.endLineNumber, r.endColumn)
    IN Range(s.lineNumber, s.column, e.lineNumber, e.column)

NoWord == [startColumn |-> 0, endColumn |-> 0]

\* index of the last character of the word that starts at index s
WordLast(line, s) ==
    Min({t \in s..Len(line) : t = Len(line) \/ ~IsWordChar(line[t + 1])})

\* indexes at which a word starts whose span, both ends included, holds the
\* column
WordStarts(line, column) ==
    {s \in 1..Len(line) :
       /\ IsWordChar(line[s])
       /\ (s = 1 \/ ~IsWordChar(line[s - 1]))
       /\ s <= column
       /\ column <= WordLast(line, s) + 1}

WordFrom(line, starts) ==
    IF starts = {} THEN NoWord
    ELSE [startColumn |-> Min(starts),
          endColumn |-> WordLast(line, Min(starts)) + 1]

WordOfPosition(lines, p) ==
    WordFrom(lines[p.lineNumber], WordStarts(lines[p.lineNumber], p.column))

\* The word whose span, both ends included, holds the column; NoWord if none.
getWordAtPosition(lines, lineNumber, column) ==
    WordOfPosition(lines, validatePosition(lines, lineNumber, column))

\* ------------------------------------------------- ModelMarkerHandler
\* A raw marker is [owner, severity, startLineNumber, startColumn,
\* endLineNumber, endColumn].  The message, source and hover text of a marker
\* take no part in any range or identity computed here and are left out.

RangeOfMarker(m) ==
    Range(m.startLineNumber, m.startColumn, m.endLineNumber, m.endColumn)

\* A word branch that starts the range at the marker's column instead of
\* the word's.
WordRange_FromMarkerColumn(ret, word) ==
    Range(ret.startLineNumber, ret.startColumn, ret.endLineNumber, word.endColumn)

\* A zero-width range with a word under it: the word's span.
WordRange(ret, word) ==
    Range(ret.startLineNumber, word.startColumn, ret.endLineNumber, word.endColumn)

\* A no-word branch without the case of the empty line.
NoWordRange_NoEmptyLine(lines, marker, ret) ==
    LET last == getLineLastNonWhitespaceColumn(lines, marker.startLineNumber)
        maxColumn == IF last # 0 THEN last
                     ELSE getLineMaxColumn(lines, marker.startLineNumber)
    IN IF ret.endColumn >= maxColumn
       THEN Range(ret.startLineNumber, maxColumn - 1, ret.endLineNumber, maxColumn)
       ELSE Range(ret.startLineNumber, ret.startColumn,
                  ret.endLineNumber, ret.endColumn + 1)

\* A no-word branch that takes the line's maximum column for the column
\* the marker is compared with.
NoWordRange_LineEnd(lines, marker, ret) ==
    LET maxColumn == getLineMaxColumn(lines, marker.startLineNumber)
    IN IF maxColumn = 1
       THEN ret
       ELSE IF ret.endColumn >= maxColumn
       THEN Range(ret.startLineNumber, maxColumn - 1, ret.endLineNumber, maxColumn)
       ELSE Range(ret.startLineNumber, ret.startColumn,
                  ret.endLineNumber, ret.endColumn + 1)

\* A zero-width range with no word under it.
NoWordRange(lines, marker, ret) ==
    LET last == getLineLastNonWhitespaceColumn(lines, marker.startLineNumber)
        maxColumn == IF last # 0 THEN last
                     ELSE getLineMaxColumn(lines, marker.startLineNumber)
    IN IF maxColumn = 1
       THEN ret                                   \* empty line
       ELSE IF ret.endColumn >= maxColumn
       THEN Range(ret.startLineNumber, maxColumn - 1, ret.endLineNumber, maxColumn)
       ELSE Range(ret.startLineNumber, ret.startColumn,
                  ret.endLineNumber, ret.endColumn + 1)

\* What the whole-line branch writes back into the marker it was handed.
TrimmedMarker(rawMarker, minColumn) ==
    [rawMarker EXCEPT !.startColumn = minColumn]

\* A whole-line marker on one line: the start moves to the first
\* non-whitespace column, and the marker handed in is updated with it.
WholeLineRange(lines, rawMarker, ret) ==
    LET minColumn == getLineFirstNonWhitespaceColumn(lines, rawMarker.startLineNumber)
    IN IF minColumn < ret.endColumn
       THEN [range |-> Range(ret.startLineNumber, minColumn,
                             ret.endLineNumber, ret.endColumn),
             rawMarker |-> TrimmedMarker(rawMarker, minColumn)]
       ELSE [range |-> ret, rawMarker |-> rawMarker]

\* A zero-width range, `word` what the buffer finds at its position.
ZeroWidthRange(lines, rawMarker, marker, ret, word) ==
    IF word # NoWord
    THEN [range |-> WordRange(ret, word), rawMarker |-> rawMarker]
    ELSE [range |-> NoWordRange(lines, marker, ret), rawMarker |-> rawMarker]

\* The branches of _createDecorationRange, `marker` the validated range and
\* `ret` the range built from it.
DecorationRange(lines, rawMarker, marker, ret) ==
    IF Range_isEmpty(ret)
    THEN ZeroWidthRange(lines, rawMarker, marker, ret,
                        getWordAtPosition(lines, ret.startLineNumber, ret.startColumn))
    ELSE IF /\ rawMarker.endColumn = MAX_VALUE
            /\ rawMarker.startColumn = 1
            /\ ret.startLineNumber = ret.endLineNumber
    THEN WholeLineRange(lines, rawMarker, ret)
    ELSE [range |-> ret, rawMarker |-> rawMarker]

RangeOfValidated(lines, rawMarker, marker) ==
    DecorationRange(lines, rawMarker, marker,
                    Range(marker.startLineNumber, marker.startColumn,
                          marker.endLineNumber, marker.endColumn))

\* The range of the decoration of one marker, and the marker as the call
\* leaves it.
_createDecorationRange(lines, rawMarker) ==
    RangeOfValidated(lines, rawMarker, validateRange(lines, RangeOfMarker(rawMarker)))

\* The queries _createDecorationRange makes to the buffer by line number,
\* as [query, lineNumber]: the word at the start of a zero-width range and,
\* when there is none, the last non-whitespace column of the validated
\* marker's line and, when that is 0, the line's maximum column; for a
\* whole-line marker the first non-whitespace column of the raw marker's
\* start line.
Query(query, lineNumber) == [query |-> query, lineNumber |-> lineNumber]

\* Queries that name the raw marker's line where the code names the
\* validated marker's.
ZeroWidthQueries_RawLine(lines, rawMarker, marker, ret, word) ==
    {Query("getWordAtPosition", ret.startLineNumber)}
        \cup (IF word # NoWord THEN {}
              ELSE {Query("getLineLastNonWhitespaceColumn", rawMarker.startLineNumber)})

ZeroWidthQueries(lines, rawMarker, marker, ret, word) ==
    {Query("getWordAtPosition", ret.startLineNumber)}
        \cup (IF word # NoWord THEN {}
              ELSE {Query("getLineLastNonWhitespaceColumn", marker.startLineNumber)}
                     \cup (IF getLineLastNonWhitespaceColumn(lines, marker.startLineNumber) # 0
                           THEN {}
                           ELSE {Query("getLineMaxColumn", marker.startLineNumber)}))

QueriesOfValidated(lines, rawMarker, marker, ret) ==
    IF Range_isEmpty(ret)
    THEN ZeroWidthQueries(lines, rawMarker, marker, ret,
                          getWordAtPosition(lines, ret.startLineNumber, ret.startColumn))
    ELSE IF /\ rawMarker.endColumn = MAX_VALUE
            /\ rawMarker.startColumn = 1
            /\ ret.startLineNumber = ret.endLineNumber
    THEN {Query("getLineFirstNonWhitespaceColumn", rawMarker.startLineNumber)}
    ELSE {}

LineQueries(lines, rawMarker) ==
    QueriesOfValidated(lines, rawMarker, validateRange(lines, RangeOfMarker(rawMarker)),
                       validateRange(lines, RangeOfMarker(rawMarker)))

Severities == {"Ignore", "Info", "Warning", "Error"}

\* A mapping without the case of Ignore: it falls to the default.
_createDecorationOption_IgnoreAsError(marker) ==
    CASE marker.severity \in {"Warning", "Info"} ->
           [className |-> "EditorWarningDecoration", color |-> "rgba(18,136,18,0.7)"]
      [] OTHER ->
           [className |-> "EditorErrorDecoration", color |-> "rgba(255,18,18,0.7)"]

_createDecorationOption(marker) ==
    CASE marker.severity = "Ignore" ->
           [className |-> "undefined", color |-> "undefined"]
      [] marker.severity \in {"Warning", "Info"} ->
           [className |-> "EditorWarningDecoration", color |-> "rgba(18,136,18,0.7)"]
      [] OTHER ->
           [className |-> "EditorErrorDecoration", color |-> "rgba(255,18,18,0.7)"]

\* markerService.read({ resource, take }): the first `take` markers held for
\* the resource.  The service hands out the records it holds, so what the
\* translator writes into a marker is written into the service's record.
MarkerService_read(store, take) ==
    SubSeq(store, 1, IF Len(store) < take THEN Len(store) ELSE take)

\* --------------------------------------------------- the buffer (Model)
\* A Model object is [exists, uri, lines, languageId, isDisposed, decorations,
\* options, bulkListeners].  decorations is a set of [id, range, options].
\* options is [guessed, tabSize, insertSpaces, trimAutoWhitespace, defaultEOL]:
\* with `guessed` the buffer derived its indentation from its own content,
\* and tabSize and insertSpaces are the bias it was handed for the guess.

PLAINTEXT == "plaintext"

NoBuffer ==
    [exists |-> FALSE, uri |-> "none", lines |-> << <<>> >>, languageId |-> PLAINTEXT,
     isDisposed |-> FALSE, decorations |-> {},
     options |-> [guessed |-> FALSE, tabSize |-> 0, insertSpaces |-> FALSE,
                  trimAutoWhitespace |-> FALSE, defaultEOL |-> "LF"],
     bulkListeners |-> 0]

DecorationIds(buf) == {d.id : d \in buf.decorations}
DecorationOf(buf, id) == CHOOSE d \in buf.decorations : d.id = id

\* The ids deltaDecorations returns for the new descriptors: a descriptor
\* equal (range and options) to a decoration of the old id set keeps that
\* decoration's id, any other gets an id the buffer has not in use.
\* acc is [avail, taken, ids]: the old ids not yet kept, the ids in use and
\* the ids given so far, one for each descriptor before lo.  The descriptors
\* lo..hi are taken in their order, the first half before the second.
DeltaId(buf, d, acc) ==
    LET same == {i \in acc.avail : /\ DecorationOf(buf, i).range = d.range
                                   /\ DecorationOf(buf, i).options = d.options}
        id == IF same # {} THEN Min(same)
              ELSE Min({n \in 1..(Cardinality(acc.taken) + 1) : n \notin acc.taken})
    IN [avail |-> acc.avail \ {id}, taken |-> acc.taken \cup {id},
        ids |-> Append(acc.ids, id)]

RECURSIVE DeltaIdsOf(_, _, _, _, _)
DeltaIdsOf(buf, new, lo, hi, acc) ==
    IF Len(acc.ids) >= hi THEN acc
    ELSE IF lo = hi THEN DeltaId(buf, new[lo], acc)
    ELSE DeltaIdsOf(buf, new, ((lo + hi) \div 2) + 1, hi,
                    DeltaIdsOf(buf, new, lo, (lo + hi) \div 2, acc))

DeltaIds(buf, avail, new, taken) ==
    DeltaIdsOf(buf, new, 1, Len(new),
               [avail |-> avail, taken |-> taken, ids |-> <<>>]).ids

\* model.deltaDecorations(oldDecorations, newDecorations): [buffer, ids].
\* The buffer validates the range of every descriptor it is handed.
DeltaResult(buf, old, new, ids) ==
    LET kept == {d \in buf.decorations : d.id \notin old}
        added == {[id |-> ids[i], range |-> new[i].range, options |-> new[i].options] :
                    i \in 1..Len(new)}
    IN [buffer |-> [buf EXCEPT !.decorations = kept \cup added], ids |-> ids]

DeltaOf(buf, old, new) ==
    DeltaResult(buf, old, new, DeltaIds(buf, old, new, DecorationIds(buf)))

Model_deltaDecorations(buf, oldIds, newDecorations) ==
    DeltaOf(buf,
            {oldIds[i] : i \in 1..Len(oldIds)} \cap DecorationIds(buf),
            [i \in 1..Len(newDecorations) |->
               [range |-> validateRange(buf.lines, newDecorations[i].range),
                options |-> newDecorations[i].options]])

\* ------------------------------------------------------------ the state

\* The resources of a run.  Schemas.inMemory is a transient scheme.
URIs == {[scheme |-> "inmemory", path |-> "a"], [scheme |-> "file", path |-> "b"]}

TransientSchemes == {"inmemory", "private", "vscode"}

\* resource.toString(): the key of the registry map and of the marker service
MODEL_ID(resource) == <<resource.scheme, resource.path>>

\* Resources on the two other transient schemes, Schemas.internal and
\* Schemas.vscode.
InternalURI == [scheme |-> "private", path |-> "c"]
VscodeURI == [scheme |-> "vscode", path |-> "d"]
TeardownURIs == URIs \cup {InternalURI, VscodeURI}

ModelIds == {MODEL_ID(u) : u \in TeardownURIs}

Languages == {PLAINTEXT, "javascript"}

ModelRefs == 1..MaxModels

VARIABLES
    models,           \* _models: model id -> ModelData object, 0 when absent
    modelData,        \* the ModelData objects
    buffers,          \* the Model objects
    markerStore,      \* the marker service: model id -> the markers it holds
    creationOptions,  \* _modelCreationOptions
    promises,         \* pending mode promises with a continuation of setMode
    subscriptions,    \* the service's marker and configuration subscriptions
    configuration,    \* the configuration service's snapshot, and the one before
    held,             \* the array the last call of getModels handed its caller
    counts,           \* per model, how often "added" and "removed" were fired
    published,        \* what the last operation fired, in order
    translated,       \* the last operation's last call of setMarkers
    last,             \* the last operation and its outcome
    embedded          \* the EmbeddedCodeEditorWidget, its parent and its base

vars == <<models, modelData, buffers, markerStore, creationOptions, promises,
          subscriptions, configuration, held, counts, published, translated, last,
          embedded>>

NoTranslation == [model |-> 0, markers |-> <<>>, decorations |-> <<>>]

\* The state as one record, the argument and result of every handler.  An
\* operation starts with nothing published, nothing translated, nothing
\* thrown, no buffer asked to change its options (optionCalls: the buffers
\* the operation called detectIndentation or updateOptions on) and no
\* marker removed (removeCalls: the owners the operation called
\* markerService.remove with); delivered is the last batch of events a
\* buffer handed the registry's listener.
St ==
    [models |-> models, modelData |-> modelData, buffers |-> buffers,
     markerStore |-> markerStore, creationOptions |-> creationOptions,
     promises |-> promises, subscriptions |-> subscriptions,
     configuration |-> configuration, held |-> held, counts |-> counts,
     published |-> <<>>, translated |-> NoTranslation, threw |-> FALSE,
     optionCalls |-> {}, removeCalls |-> <<>>, delivered |-> <<>>]

\* An exception leaves the operation.
Threw(S) == [S EXCEPT !.threw = TRUE]

\* The operation `op` ends in S; `model` is the model it returned or, for a
\* mode continuation, the model it is about (0: null, or nothing returned).
Commit(S, op, model) ==
    /\ models' = S.models
    /\ modelData' = S.modelData
    /\ buffers' = S.buffers
    /\ markerStore' = S.markerStore
    /\ creationOptions' = S.creationOptions
    /\ promises' = S.promises
    /\ subscriptions' = S.subscriptions
    /\ configuration' = S.configuration
    /\ held' = S.held
    /\ counts' = S.counts
    /\ published' = S.published
    /\ translated' = S.translated
    /\ last' = [op |-> op, threw |-> S.threw, model |-> model,
                removes |-> S.removeCalls, batch |-> S.delivered]
    /\ embedded' = embedded

\* The operation `op` ends with r: the state and the model returned.
CommitReturned(r, op) == Commit(r.state, op, r.model)

NoModelData ==
    [model |-> 0, markerDecorations |-> <<>>, listener |-> "none",
     listenerDisposals |-> 0]

\* ------------------------------------------------------- notifications

\* getModel(resource): the model of the entry under the key, 0 for null
getModel(S, resource) ==
    LET md == S.models[MODEL_ID(resource)]
    IN IF md = 0 THEN 0 ELSE S.modelData[md].model

\* The descriptors of the marker decorations the entry of the key tracks.
TrackedDecorations(S, modelId) ==
    LET md == S.models[modelId]
    IN IF md = 0 \/ S.modelData[md].model = 0 THEN {}
       ELSE LET buf == S.buffers[S.modelData[md].model]
                ids == S.modelData[md].markerDecorations
            IN {[range |-> DecorationOf(buf, ids[i]).range,
                 options |-> DecorationOf(buf, ids[i]).options] :
                  i \in {j \in 1..Len(ids) : ids[j] \in DecorationIds(buf)}}

\* Emitter.fire: the notification, with what a listener sees of the registry
\* and of the marker service at the moment it is published.
Fire(S, type, b, oldModeId) ==
    LET id == MODEL_ID(S.buffers[b].uri)
    IN [S EXCEPT
          !.published = Append(@,
             [type |-> type, model |-> b, oldModeId |-> oldModeId,
              lookup |-> getModel(S, S.buffers[b].uri),
              tracked |-> TrackedDecorations(S, id),
              markers |-> S.markerStore[id]]),
          !.counts[b] = [added |-> @.added + (IF type = "added" THEN 1 ELSE 0),
                         removed |-> @.removed + (IF type = "removed" THEN 1 ELSE 0)]]

\* ------------------------------------------------------------ ModelData

\* An entry that hands the buffer no old ids: it adds the new decorations
\* and leaves the earlier ones in the buffer.
\* this._markerDecorations = <what deltaDecorations returned>
AcceptDelta(S, md, r) ==
    [S EXCEPT !.buffers[S.modelData[md].model] = r.buffer,
              !.modelData[md].markerDecorations = r.ids]

ModelData_acceptMarkerDecorations_AddsOnly(S, md, newDecorations) ==
    AcceptDelta(S, md,
                Model_deltaDecorations(S.buffers[S.modelData[md].model], <<>>,
                                       newDecorations))

ModelData_acceptMarkerDecorations(S, md, newDecorations) ==
    AcceptDelta(S, md,
                Model_deltaDecorations(S.buffers[S.modelData[md].model],
                                       S.modelData[md].markerDecorations,
                                       newDecorations))

\* The listener is disposed and the references dropped, r what
\* deltaDecorations returned.
DisposeWith(S, md, r) ==
    [S EXCEPT !.buffers[S.modelData[md].model] =
                 [r.buffer EXCEPT !.bulkListeners = @ - 1],
              !.modelData[md] = [model |-> 0, markerDecorations |-> r.ids,
                                 listener |-> "null",
                                 listenerDisposals |-> @.listenerDisposals + 1]]

\* A dispose that releases the listener and leaves the entry's decorations
\* in the buffer.
ModelData_dispose_KeepsDecorations(S, md) ==
    DisposeWith(S, md,
                [buffer |-> S.buffers[S.modelData[md].model],
                 ids |-> S.modelData[md].markerDecorations])

ModelData_dispose(S, md) ==
    DisposeWith(S, md,
                Model_deltaDecorations(S.buffers[S.modelData[md].model],
                                       S.modelData[md].markerDecorations, <<>>))

\* ------------------------------------------- markers -> decorations

\* The descriptors are handed to the entry; `out` is what
\* _createDecorationRange returned per marker, and the markers it wrote to
\* are the marker service's.
AcceptTranslated(S, md, id, markers, out, newModelDecorations) ==
    ModelData_acceptMarkerDecorations(
        [S EXCEPT !.markerStore[id] =
                     [i \in 1..Len(S.markerStore[id]) |->
                        IF i <= Len(markers) THEN out[i].rawMarker
                        ELSE S.markerStore[id][i]],
                  !.translated = [model |-> S.modelData[md].model,
                                  markers |-> markers,
                                  decorations |-> newModelDecorations]],
        md, newModelDecorations)

\* markers.map(marker => ({ range, options }))
MapMarkers(S, md, id, markers, out) ==
    AcceptTranslated(S, md, id, markers, out,
        [i \in 1..Len(markers) |->
           [range |-> out[i].range,
            options |-> _createDecorationOption(out[i].rawMarker)]])

TranslateMarkers(S, md, id, markers) ==
    MapMarkers(S, md, id, markers,
        [i \in 1..Len(markers) |->
           _createDecorationRange(S.buffers[S.modelData[md].model].lines, markers[i])])

ModelMarkerHandler_setMarkers(S, md) ==
    LET id == MODEL_ID(S.buffers[S.modelData[md].model].uri)
    IN TranslateMarkers(S, md, id, MarkerService_read(S.markerStore[id], MARKER_TAKE))

\* A handler that leaves the batch at the first key that has no entry.
RECURSIVE _handleMarkerChange_StopsAtUnknown(_, _)
_handleMarkerChange_StopsAtUnknown(S, changedResources) ==
    IF changedResources = <<>> THEN S
    ELSE LET md == S.models[MODEL_ID(Head(changedResources))]
         IN IF md = 0 THEN S
            ELSE _handleMarkerChange_StopsAtUnknown(
                     ModelMarkerHandler_setMarkers(S, md), Tail(changedResources))

RECURSIVE _handleMarkerChange(_, _)
_handleMarkerChange(S, changedResources) ==
    IF changedResources = <<>> THEN S
    ELSE LET md == S.models[MODEL_ID(Head(changedResources))]
             S1 == IF md = 0 THEN S ELSE ModelMarkerHandler_setMarkers(S, md)
         IN _handleMarkerChange(S1, Tail(changedResources))

\* The marker service publishes a change to the registry while the
\* registry's subscription is held.
MarkerService_onMarkerChanged(S, changedResources) ==
    IF S.subscriptions.marker = "active"
    THEN _handleMarkerChange(S, changedResources)
    ELSE S

SelectMarkers(store, owners) ==
    SelectSeq(store, LAMBDA m : m.owner \in owners)

\* markerService.remove(owner, [resource])
MarkerService_remove(S, owner, resource) ==
    LET id == MODEL_ID(resource)
        rest == SelectSeq(S.markerStore[id], LAMBDA m : m.owner # owner)
    IN IF rest = S.markerStore[id]
       THEN [S EXCEPT !.removeCalls = Append(@, owner)]
       ELSE MarkerService_onMarkerChanged(
                [S EXCEPT !.markerStore[id] = rest,
                          !.removeCalls = Append(@, owner)],
                <<resource>>)

RECURSIVE RemoveOwners(_, _, _)
RemoveOwners(S, owners, resource) ==
    IF owners = <<>> THEN S
    ELSE RemoveOwners(MarkerService_remove(S, Head(owners), resource),
                      Tail(owners), resource)

\* A clean-up that removes the markers of the owner of the first marker
\* only.
_cleanUp_FirstOwner(S, b) ==
    LET uri == S.buffers[b].uri
        read == S.markerStore[MODEL_ID(uri)]
    IN IF uri.scheme \in TransientSchemes /\ read # <<>>
       THEN MarkerService_remove(S, read[1].owner, uri)
       ELSE S

_cleanUp(S, b) ==
    LET uri == S.buffers[b].uri
        read == S.markerStore[MODEL_ID(uri)]
    IN IF uri.scheme \in TransientSchemes
       THEN RemoveOwners(S, [i \in 1..Len(read) |-> read[i].owner], uri)
       ELSE S

\* ------------------------------------------------------ buffer events
\* An event of a buffer is [type, oldLanguage]; the buffer hands its bulk
\* listeners a batch (a sequence) of them.

DisposeEvent == [type |-> "ModelDispose", oldLanguage |-> "none"]
LanguageChangedEvent(old) == [type |-> "ModelLanguageChanged", oldLanguage |-> old]

\* A disposal handler that publishes "removed" while the entry is still in
\* the map.
_onModelDisposing_FiresFirst(S, b) ==
    LET modelId == MODEL_ID(S.buffers[b].uri)
        md == S.models[modelId]
        S1 == Fire(S, "removed", b, "none")
        S2 == [S1 EXCEPT !.models[modelId] = 0]
        S3 == ModelData_dispose(S2, md)
    IN _cleanUp(S3, b)

\* A teardown that cleans the markers up while the entry is still in the
\* map.
_onModelDisposing_CleansUpFirst(S, b) ==
    LET modelId == MODEL_ID(S.buffers[b].uri)
        md == S.models[modelId]
        S1 == _cleanUp(S, b)
        S2 == [S1 EXCEPT !.models[modelId] = 0]
        S3 == ModelData_dispose(S2, md)
    IN Fire(S3, "removed", b, "none")

\* A teardown that leaves the entry in the map.
_onModelDisposing_KeepsEntry(S, b) ==
    LET modelId == MODEL_ID(S.buffers[b].uri)
        md == S.models[modelId]
        S2 == ModelData_dispose(S, md)
        S3 == _cleanUp(S2, b)
    IN Fire(S3, "removed", b, "none")

_onModelDisposing(S, b) ==
    LET modelId == MODEL_ID(S.buffers[b].uri)
        md == S.models[modelId]
        S1 == [S EXCEPT !.models[modelId] = 0]
        S2 == ModelData_dispose(S1, md)
        S3 == _cleanUp(S2, b)
    IN Fire(S3, "removed", b, "none")

\* A dispatch that hands the listeners the model's new language as the old
\* one.
FireModeChanges_NewLanguage(S, b, events) ==
    IF \E i \in 1..Len(events) : events[i].type = "ModelLanguageChanged"
    THEN Fire(S, "modeChanged", b, S.buffers[b].languageId)
    ELSE S

RECURSIVE FireModeChanges(_, _, _)
FireModeChanges(S, b, events) ==
    IF events = <<>> THEN S
    ELSE LET e == Head(events)
             S1 == IF e.type = "ModelLanguageChanged"
                   THEN Fire(S, "modeChanged", b, e.oldLanguage)
                   ELSE S
         IN FireModeChanges(S1, b, Tail(events))

\* A handler that takes the events of a batch in their order: it publishes
\* the mode changes that come before a dispose event.
_onModelEvents_InOrder(S, md, events) ==
    IF \E i \in 1..Len(events) : events[i].type = "ModelDispose"
    THEN LET d == CHOOSE i \in 1..Len(events) :
                     /\ events[i].type = "ModelDispose"
                     /\ \A j \in 1..(i - 1) : events[j].type # "ModelDispose"
         IN _onModelDisposing(
                FireModeChanges(S, S.modelData[md].model, SubSeq(events, 1, d - 1)),
                S.modelData[md].model)
    ELSE FireModeChanges(S, S.modelData[md].model, events)

\* md is the ModelData the listener was created for.
_onModelEvents(S, md, events) ==
    IF \E i \in 1..Len(events) : events[i].type = "ModelDispose"
    THEN _onModelDisposing(S, S.modelData[md].model)
    ELSE FireModeChanges(S, S.modelData[md].model, events)

\* The buffer emits a batch to the bulk listener attached to it.  The
\* listener ModelData attaches is the closure over that ModelData, which has
\* the buffer's own index.
Model_emit(S, b, events) ==
    IF S.buffers[b].bulkListeners > 0
    THEN _onModelEvents([S EXCEPT !.delivered = events], b, events)
    ELSE S

\* model.setMode(languageIdentifier): nothing when the language is the same
Model_setMode(S, b, languageId) ==
    IF S.buffers[b].languageId = languageId THEN S
    ELSE Model_emit([S EXCEPT !.buffers[b].languageId = languageId], b,
                    <<LanguageChangedEvent(S.buffers[b].languageId)>>)

\* model.dispose(): the dispose event is emitted while the buffer is still
\* usable, then the buffer drops its content, decorations and listeners.  Of
\* a disposed buffer only the resource, the language and the disposed flag
\* are read afterwards.
MarkDisposed(S, b) ==
    [S EXCEPT !.buffers[b] =
        [NoBuffer EXCEPT !.exists = TRUE, !.uri = S.buffers[b].uri,
                         !.languageId = S.buffers[b].languageId,
                         !.isDisposed = TRUE]]

Model_dispose(S, b) == MarkDisposed(Model_emit(S, b, <<DisposeEvent>>), b)

\* Another event of a buffer, one the registry has no interest in.
ContentChangedEvent == [type |-> "ModelContentChanged", oldLanguage |-> "none"]

\* The batch of a shape, a sequence of "L" (language changed), "D" (dispose)
\* and "O" (other), for a buffer whose language was `old`.
BatchOf(shape, old) ==
    [i \in 1..Len(shape) |->
       CASE shape[i] = "L" -> LanguageChangedEvent(old)
         [] shape[i] = "D" -> DisposeEvent
         [] OTHER -> ContentChangedEvent]

HasEvent(shape, e) == \E i \in 1..Len(shape) : shape[i] = e

\* The buffer hands its listeners the events it collected in one batch: its
\* language is `languageId` when the batch holds a language change, and it
\* is disposed after the batch when the batch holds a dispose.
DeliverAndDispose(S, b, shape) ==
    IF HasEvent(shape, "D") THEN MarkDisposed(S, b) ELSE S

Model_emitBatch(S, b, shape, languageId) ==
    DeliverAndDispose(
        Model_emit([S EXCEPT !.buffers[b].languageId =
                                IF HasEvent(shape, "L") THEN languageId ELSE @],
                   b, BatchOf(shape, S.buffers[b].languageId)),
        b, shape)

\* ---------------------------------------------------- IModelService
\* modeOrPromise is [kind, id, done]: kind "none" (null), "mode" (an IMode)
\* or "promise" (a TPromise of a mode, `done` when it has already completed:
\* the continuation of a completed promise runs inside `then`).

NoMode == [kind |-> "none", id |-> PLAINTEXT, done |-> FALSE]

\* A continuation with its test inverted: it leaves a live model alone.
ModeContinuation_OnlyWhenDisposed(S, b, languageId) ==
    IF S.buffers[b].isDisposed THEN Model_setMode(S, b, languageId) ELSE S

\* A continuation that does not test whether the model is disposed.
ModeContinuation_Unconditional(S, b, languageId) ==
    Model_setMode(S, b, languageId)

ModeContinuation(S, b, languageId) ==
    IF ~S.buffers[b].isDisposed THEN Model_setMode(S, b, languageId) ELSE S

setMode(S, b, modeOrPromise) ==
    IF modeOrPromise.kind = "none" THEN S
    ELSE IF modeOrPromise.kind = "promise"
    THEN IF modeOrPromise.done
         THEN ModeContinuation(S, b, modeOrPromise.id)
         ELSE [S EXCEPT !.promises = @ \cup {[model |-> b, mode |-> modeOrPromise.id]}]
    ELSE Model_setMode(S, b, modeOrPromise.id)

\* The Model objects not yet constructed.
FreeModels(S) == {b \in ModelRefs : ~S.buffers[b].exists}

\* A construction from a string that hands the buffer the default options
\* in place of the registry's.
NewModel_DefaultOptions(S, value, languageId, resource) ==
    [exists |-> TRUE, uri |-> resource, lines |-> value.lines,
     languageId |-> languageId, isDisposed |-> FALSE, decorations |-> {},
     options |-> IF value.kind = "string"
                 THEN [guessed |-> TRUE, tabSize |-> DEFAULT_TAB_SIZE, insertSpaces |-> TRUE,
                       trimAutoWhitespace |-> TRUE, defaultEOL |-> "LF"]
                 ELSE value.options,
     bulkListeners |-> 0]

\* Model.createFromString(value, options, ...) takes the options it is
\* handed; new Model(rawText, ...) takes the options the raw text carries.
NewModel(S, value, languageId, resource) ==
    [exists |-> TRUE, uri |-> resource, lines |-> value.lines,
     languageId |-> languageId, isDisposed |-> FALSE, decorations |-> {},
     options |-> IF value.kind = "string"
                 THEN [guessed |-> S.creationOptions.detectIndentation,
                       tabSize |-> S.creationOptions.tabSize,
                       insertSpaces |-> S.creationOptions.insertSpaces,
                       trimAutoWhitespace |-> S.creationOptions.trimAutoWhitespace,
                       defaultEOL |-> S.creationOptions.defaultEOL]
                 ELSE value.options,
     bulkListeners |-> 0]

\* A registry that does not refuse a key it already holds: the new entry
\* replaces the old one in the map.
_createModelData_Overwrites(S, value, languageId, resource) ==
    IF FreeModels(S) = {} THEN [state |-> Threw(S), modelData |-> 0]
    ELSE LET b == Min(FreeModels(S))
         IN [state |-> [S EXCEPT
                          !.buffers[b] = [NewModel(S, value, languageId, resource)
                                            EXCEPT !.bulkListeners = 1],
                          !.modelData[b] = [model |-> b, markerDecorations |-> <<>>,
                                            listener |-> "active",
                                            listenerDisposals |-> 0],
                          !.models[MODEL_ID(resource)] = b],
             modelData |-> b]

\* [state, modelData (0 when it threw)].  The Model constructed before a
\* throw is referenced by nothing and is not kept.
_createModelData(S, value, languageId, resource) ==
    LET b == Min(FreeModels(S))
        modelId == MODEL_ID(resource)
    IN IF S.models[modelId] # 0
       THEN [state |-> Threw(S), modelData |-> 0]
       ELSE [state |-> [S EXCEPT
                          !.buffers[b] = [NewModel(S, value, languageId, resource)
                                            EXCEPT !.bulkListeners = 1],
                          !.modelData[b] = [model |-> b, markerDecorations |-> <<>>,
                                            listener |-> "active",
                                            listenerDisposals |-> 0],
                          !.models[modelId] = b],
             modelData |-> b]

\* The mode of the new entry c: setMode when createModel was handed a
\* promise or nothing, the mode it was constructed with otherwise.
WithMode(c, modeOrPromise) ==
    IF modeOrPromise.kind # "mode"
    THEN setMode(c.state, c.state.modelData[c.modelData].model, modeOrPromise)
    ELSE c.state

\* this._onModelAdded.fire(modelData.model); return modelData.model
AddedAndReturned(S, b) == [state |-> Fire(S, "added", b, "none"), model |-> b]

MarkersThenAdded(c, modeOrPromise) ==
    IF c.state.threw THEN [state |-> c.state, model |-> 0]
    ELSE AddedAndReturned(
             ModelMarkerHandler_setMarkers(WithMode(c, modeOrPromise), c.modelData),
             c.state.modelData[c.modelData].model)

AddedThenMarkers(c, modeOrPromise) ==
    IF c.state.threw THEN [state |-> c.state, model |-> 0]
    ELSE [state |-> ModelMarkerHandler_setMarkers(
                        Fire(WithMode(c, modeOrPromise), "added",
                             c.state.modelData[c.modelData].model, "none"),
                        c.modelData),
          model |-> c.state.modelData[c.modelData].model]

\* A createModel that publishes "added" before it applies the markers.
createModel_AddedBeforeMarkers(S, value, modeOrPromise, resource) ==
    AddedThenMarkers(
        _createModelData(S, value,
                         IF modeOrPromise.kind # "mode" THEN PLAINTEXT
                         ELSE modeOrPromise.id,
                         resource),
        modeOrPromise)

\* [state, model (0 when it threw)]
createModel(S, value, modeOrPromise, resource) ==
    MarkersThenAdded(
        _createModelData(S, value,
                         IF modeOrPromise.kind # "mode" THEN PLAINTEXT
                         ELSE modeOrPromise.id,
                         resource),
        modeOrPromise)

\* A destroyModel that does not test for the entry: on a key without one it
\* dereferences undefined.
destroyModel_Unguarded(S, resource) ==
    LET md == S.models[MODEL_ID(resource)]
    IN IF md = 0 THEN Threw(S) ELSE Model_dispose(S, S.modelData[md].model)

destroyModel(S, resource) ==
    LET md == S.models[MODEL_ID(resource)]
    IN IF md = 0 THEN S ELSE Model_dispose(S, S.modelData[md].model)

\* getModels(): the models of the entries, in the order of the map's keys
RECURSIVE ModelsOf(_, _)
ModelsOf(S, ids) ==
    IF ids = {} THEN <<>>
    ELSE LET id == CHOOSE x \in ids : \A y \in ids : S.models[x] <= S.models[y]
         IN <<S.modelData[S.models[id]].model>> \o ModelsOf(S, ids \ {id})

\* A getModels that returns the model of every ModelData object ever made,
\* null for the disposed ones.
getModels_EveryEntry(S) ==
    [i \in 1..Cardinality({b \in ModelRefs : S.buffers[b].exists}) |->
       S.modelData[i].model]

getModels(S) == ModelsOf(S, {id \in ModelIds : S.models[id] # 0})

\* ---------------------------------------------------- configuration
\* A raw configuration value is [t, b, n, s]: its JavaScript type and, by
\* type, its boolean, number or string (a sequence of characters).

Undefined == [t |-> "undefined", b |-> FALSE, n |-> 0, s |-> <<>>]
Bool(v) == [t |-> "boolean", b |-> v, n |-> 0, s |-> <<>>]
Num(v) == [t |-> "number", b |-> FALSE, n |-> v, s |-> <<>>]
Str(v) == [t |-> "string", b |-> FALSE, n |-> 0, s |-> v]

Digits == <<"0", "1", "2", "3", "4", "5", "6", "7", "8", "9">>
IsDigit(c) == \E i \in 1..10 : Digits[i] = c
DigitValue(c) == (CHOOSE i \in 1..10 : Digits[i] = c) - 1

RECURSIVE DecimalValue(_, _)
DecimalValue(chars, acc) ==
    IF chars = <<>> \/ ~IsDigit(Head(chars)) THEN acc
    ELSE DecimalValue(Tail(chars), 10 * acc + DigitValue(Head(chars)))

\* parseInt(v, 10): [isNaN, value]; the leading digits of a string, the
\* number itself, NaN otherwise
parseInt(v) ==
    CASE v.t = "number" -> [isNaN |-> FALSE, value |-> v.n]
      [] v.t = "string" /\ v.s # <<>> /\ IsDigit(Head(v.s)) ->
           [isNaN |-> FALSE, value |-> DecimalValue(v.s, 0)]
      [] OTHER -> [isNaN |-> TRUE, value |-> 0]

\* A conversion without the case of the string "false": Boolean(v).
ConfigBoolean_Truthy(v) ==
    CASE v.t = "boolean" -> v.b
      [] v.t = "number" -> v.n # 0
      [] v.t = "string" -> v.s # <<>>
      [] OTHER -> FALSE

\* v === 'false' ? false : Boolean(v)
ConfigBoolean(v) ==
    IF v.t = "string" /\ v.s = <<"f", "a", "l", "s", "e">> THEN FALSE
    ELSE CASE v.t = "boolean" -> v.b
           [] v.t = "number" -> v.n # 0
           [] v.t = "string" -> v.s # <<>>
           [] OTHER -> FALSE

\* model.detectIndentation(insertSpaces, tabSize)
Model_detectIndentation(buf, insertSpaces, tabSize) ==
    [buf EXCEPT !.options.guessed = TRUE,
                !.options.insertSpaces = insertSpaces,
                !.options.tabSize = tabSize]

\* An update that, with detection on, leaves the trim flag as it was.
UpdateModelOptions_DetectOnly(buf, opts) ==
    IF opts.detectIndentation
    THEN Model_detectIndentation(buf, opts.insertSpaces, opts.tabSize)
    ELSE [buf EXCEPT !.options.guessed = FALSE,
                     !.options.insertSpaces = opts.insertSpaces,
                     !.options.tabSize = opts.tabSize,
                     !.options.trimAutoWhitespace = opts.trimAutoWhitespace]

UpdateModelOptions(buf, opts) ==
    IF opts.detectIndentation
    THEN [Model_detectIndentation(buf, opts.insertSpaces, opts.tabSize)
            EXCEPT !.options.trimAutoWhitespace = opts.trimAutoWhitespace]
    ELSE [buf EXCEPT !.options.guessed = FALSE,
                     !.options.insertSpaces = opts.insertSpaces,
                     !.options.tabSize = opts.tabSize,
                     !.options.trimAutoWhitespace = opts.trimAutoWhitespace]

\* The models of the entries the map holds.
RegisteredModels(S) ==
    {S.modelData[S.models[id]].model : id \in {x \in ModelIds : S.models[x] # 0}}

\* this._modelCreationOptions = newOpts, then the options of every model
\* of the map are updated.
UpdateAllModels(S, newOpts, registered) ==
    [S EXCEPT !.creationOptions = newOpts,
              !.optionCalls = @ \cup registered,
              !.buffers = [b \in ModelRefs |->
                             IF b \in registered
                             THEN UpdateModelOptions(S.buffers[b], newOpts)
                             ELSE S.buffers[b]]]

\* A test for "same options" that leaves the tab size out.
_setModelOptions_IgnoresTabSize(S, newOpts) ==
    IF /\ S.creationOptions.detectIndentation = newOpts.detectIndentation
       /\ S.creationOptions.insertSpaces = newOpts.insertSpaces
       /\ S.creationOptions.trimAutoWhitespace = newOpts.trimAutoWhitespace
    THEN [S EXCEPT !.creationOptions = newOpts]
    ELSE UpdateAllModels(S, newOpts, RegisteredModels(S))

\* An update of the options that touches the models whatever has changed.
_setModelOptions_AlwaysUpdates(S, newOpts) ==
    UpdateAllModels(S, newOpts, RegisteredModels(S))

_setModelOptions(S, newOpts) ==
    IF /\ S.creationOptions.detectIndentation = newOpts.detectIndentation
       /\ S.creationOptions.insertSpaces = newOpts.insertSpaces
       /\ S.creationOptions.tabSize = newOpts.tabSize
       /\ S.creationOptions.trimAutoWhitespace = newOpts.trimAutoWhitespace
    THEN [S EXCEPT !.creationOptions = newOpts]
    ELSE UpdateAllModels(S, newOpts, RegisteredModels(S))

\* config is [eol, tabSize, insertSpaces, detectIndentation,
\* trimAutoWhitespace], each a raw value.
readConfig(S, config) ==
    LET parsedTabSize == parseInt(config.tabSize)
        tabSize == IF config.tabSize.t # "undefined" /\ ~parsedTabSize.isNaN
                   THEN parsedTabSize.value ELSE DEFAULT_TAB_SIZE
        insertSpaces == IF config.insertSpaces.t # "undefined"
                        THEN ConfigBoolean(config.insertSpaces) ELSE TRUE
        newDefaultEOL == IF config.eol = Str(<<"\r", "\n">>) THEN "CRLF"
                         ELSE IF config.eol = Str(<<"\n">>) THEN "LF"
                         ELSE S.creationOptions.defaultEOL
        trimAutoWhitespace == IF config.trimAutoWhitespace.t # "undefined"
                              THEN ConfigBoolean(config.trimAutoWhitespace)
                              ELSE S.creationOptions.trimAutoWhitespace
        detectIndentation == IF config.detectIndentation.t # "undefined"
                             THEN ConfigBoolean(config.detectIndentation) ELSE TRUE
    IN _setModelOptions(S, [tabSize |-> tabSize, insertSpaces |-> insertSpaces,
                            detectIndentation |-> detectIndentation,
                            defaultEOL |-> newDefaultEOL,
                            trimAutoWhitespace |-> trimAutoWhitespace])

EmptyConfig ==
    [eol |-> Undefined, tabSize |-> Undefined, insertSpaces |-> Undefined,
     detectIndentation |-> Undefined, trimAutoWhitespace |-> Undefined]

\* dispose() of the service
ModelServiceImpl_dispose(S) ==
    [S EXCEPT !.subscriptions =
        [marker |-> "disposed", config |-> "disposed",
         markerDisposals |-> @.markerDisposals + 1,
         configDisposals |-> @.configDisposals + 1]]

\* The service as its constructor leaves it, the configuration service
\* holding `config` and the platform's end of line being LF.
Constructed(config) ==
    readConfig(
        [models |-> [id \in ModelIds |-> 0],
         modelData |-> [b \in ModelRefs |-> NoModelData],
         buffers |-> [b \in ModelRefs |-> NoBuffer],
         markerStore |-> [id \in ModelIds |-> <<>>],
         creationOptions |-> [tabSize |-> DEFAULT_TAB_SIZE, insertSpaces |-> TRUE,
                              detectIndentation |-> TRUE, defaultEOL |-> "LF",
                              trimAutoWhitespace |-> TRUE],
         promises |-> {},
         subscriptions |-> [marker |-> "active", config |-> "active",
                            markerDisposals |-> 0, configDisposals |-> 0],
         configuration |-> [now |-> config, before |-> config],
         held |-> <<>>,
         counts |-> [b \in ModelRefs |-> [added |-> 0, removed |-> 0]],
         published |-> <<>>,
         translated |-> NoTranslation,
         threw |-> FALSE,
         optionCalls |-> {},
         removeCalls |-> <<>>,
         delivered |-> <<>>],
        config)

\* ------------------------------------------- EmbeddedCodeEditorWidget
\* An options object is a map from option paths to values, "unset" where the
\* object has no such key.  A nested options object (scrollbar) is its
\* paths: objects.mixin descends into a key that holds an object on both
\* sides, which leaves each path of the source over that of the destination.

Unset == "unset"

OptionValues ==
    [readOnly |-> {"true", "false"}, lineNumbers |-> {"on", "off"},
     scrollbarVertical |-> {"auto", "hidden"}]

OptionKeys == DOMAIN OptionValues

NoOptions == [k \in OptionKeys |-> Unset]

\* objects.mixin(destination, source, true): the keys of the source are
\* written over the destination's, the other keys of the destination stay.
objects_mixin(destination, source) ==
    [k \in OptionKeys |-> IF source[k] # Unset THEN source[k] ELSE destination[k]]

\* The widget W: parent is what parentEditor.getRawConfiguration() returns,
\* overwrite is _overwriteOptions, raw the options the base editor holds,
\* applied the arguments of the calls of super.updateOptions an operation
\* made, given the constructor's options and the arguments of updateOptions
\* since.
NoEmbedded ==
    [parent |-> NoOptions, overwrite |-> NoOptions, raw |-> NoOptions,
     applied |-> <<>>, given |-> <<>>, op |-> "none"]

\* super.updateOptions(newOptions): the base editor mixes the options into
\* the ones it holds.
CodeEditor_updateOptions(W, newOptions) ==
    [W EXCEPT !.raw = objects_mixin(@, newOptions),
              !.applied = Append(@, newOptions)]

\* super(domElement, parentEditor.getRawConfiguration(), ...);
\* this._overwriteOptions = options; super.updateOptions(this._overwriteOptions)
EmbeddedCodeEditorWidget_constructor(options, parentRaw) ==
    CodeEditor_updateOptions(
        [NoEmbedded EXCEPT !.parent = parentRaw, !.raw = parentRaw,
                           !.overwrite = options, !.given = <<options>>,
                           !.op = "constructor"],
        options)

\* A handler that applies the parent's configuration after the overwrite
\* options.
_onParentConfigurationChanged_ParentLast(W) ==
    CodeEditor_updateOptions(CodeEditor_updateOptions(W, W.overwrite), W.parent)

_onParentConfigurationChanged(W) ==
    CodeEditor_updateOptions(CodeEditor_updateOptions(W, W.parent), W.overwrite)

\* updateOptions(newOptions) of the widget
EmbeddedCodeEditorWidget_updateOptions(W, newOptions) ==
    LET W1 == [W EXCEPT !.overwrite = objects_mixin(@, newOptions)]
    IN CodeEditor_updateOptions(W1, W1.overwrite)

\* -------------------------------------------------------------- inputs

Owners == {"linter", "tsc"}

Marker(owner, severity, sl, sc, el, ec) ==
    [owner |-> owner, severity |-> severity, startLineNumber |-> sl,
     startColumn |-> sc, endLineNumber |-> el, endColumn |-> ec]

\* The markers the owners of a run report: a point, and whole lines.
MarkerSamples ==
    {Marker("linter", "Error", 1, 1, 1, 1),
     Marker("linter", "Warning", 2, 1, 2, MAX_VALUE),
     Marker("tsc", "Warning", 1, 1, 1, MAX_VALUE)}

\* What the one owner of a run of the registry's lifecycle reports for a
\* resource: nothing, or the point.
LifecycleOwners == {"linter"}
LifecycleMarkerLists == {<<>>, <<Marker("linter", "Error", 1, 1, 1, 1)>>}

RECURSIVE SeqsUpTo(_, _)
SeqsUpTo(S, n) ==
    IF n = 0 THEN {<<>>}
    ELSE LET shorter == SeqsUpTo(S, n - 1)
         IN shorter \cup {Append(q, x) : q \in shorter, x \in S}

OwnerMarkerLists(owner) ==
    SeqsUpTo({m \in MarkerSamples : m.owner = owner}, MaxOwnerMarkers)

StringValue(lines) ==
    [kind |-> "string", lines |-> lines, options |-> NoBuffer.options]

RawTextValue(lines, options) ==
    [kind |-> "rawText", lines |-> lines, options |-> options]

\* "foo" as a string, and the two lines " x" and "" as a raw text that
\* carries its own options.
Values ==
    {StringValue(<< <<"f", "o", "o">> >>),
     RawTextValue(<< <<" ", "x">>, <<>> >>,
                  [guessed |-> FALSE, tabSize |-> 8, insertSpaces |-> FALSE,
                   trimAutoWhitespace |-> FALSE, defaultEOL |-> "CRLF"])}

\* The content of the buffers in a run of the registry's lifecycle.
LifecycleValues == {StringValue(<< <<"f", "o", "o">> >>)}

Mode(id) == [kind |-> "mode", id |-> id, done |-> FALSE]
Promise(id, done) == [kind |-> "promise", id |-> id, done |-> done]

\* What createModel is handed for a mode: nothing, a mode, a promise that
\* has completed, a promise still pending.
CreateModeArgs ==
    {NoMode, Mode("javascript"), Promise("javascript", TRUE),
     Promise("javascript", FALSE)}

\* What setMode is handed.
SetModeArgs ==
    {NoMode, Promise("javascript", FALSE)} \cup {Mode(l) : l \in Languages}

\* The batches of resources a change of the marker service names.
Batches == {<<u>> : u \in URIs} \cup {<<u, v>> : u, v \in URIs}

\* In a run of the registry's lifecycle: one resource, or the two.
LifecycleBatches ==
    {<<u>> : u \in URIs}
        \cup {<<[scheme |-> "inmemory", path |-> "a"], [scheme |-> "file", path |-> "b"]>>}

Configs ==
    {EmptyConfig,
     [EmptyConfig EXCEPT !.tabSize = Str(<<"2">>),
                         !.detectIndentation = Bool(FALSE)]}

LifecycleConfigs ==
    {[EmptyConfig EXCEPT !.tabSize = Str(<<"2">>),
                         !.detectIndentation = Bool(FALSE)]}

\* ------------------------------------------------------------- actions

\* A promise still pending may be handed in while fewer than MaxPending are.
MayPend(b, modeOrPromise) ==
    modeOrPromise.kind = "promise" /\ ~modeOrPromise.done
        => \/ [model |-> b, mode |-> modeOrPromise.id] \in promises
           \/ Cardinality(promises) < MaxPending

CreateModel(value, modeOrPromise, resource) ==
    /\ models[MODEL_ID(resource)] # 0 \/ FreeModels(St) # {}
    /\ models[MODEL_ID(resource)] = 0 => MayPend(Min(FreeModels(St)), modeOrPromise)
    /\ CommitReturned(createModel(St, value, modeOrPromise, resource), "createModel")

\* setMode(model, modeOrPromise) on a model its caller holds
SetMode(b, modeOrPromise) ==
    /\ buffers[b].exists /\ ~buffers[b].isDisposed
    /\ MayPend(b, modeOrPromise)
    /\ Commit(setMode(St, b, modeOrPromise), "setMode", 0)

\* A pending mode promise completes: its continuation runs.
ResolveMode(p) ==
    /\ p \in promises
    /\ Commit(ModeContinuation([St EXCEPT !.promises = @ \ {p}], p.model, p.mode),
              "resolveMode", p.model)

DestroyModel(resource) ==
    Commit(destroyModel(St, resource), "destroyModel", 0)

\* An owner of the buffer disposes it without the service.
DisposeModel(b) ==
    /\ buffers[b].exists /\ ~buffers[b].isDisposed
    /\ Commit(Model_dispose(St, b), "model.dispose", 0)

\* The buffer hands its listeners a batch of the events it collected.
EmitBatch(b, shape, languageId) ==
    /\ buffers[b].exists /\ ~buffers[b].isDisposed
    /\ Commit(Model_emitBatch(St, b, shape, languageId), "model.emit", b)

GetModel(resource) ==
    Commit(St, "getModel", getModel(St, resource))

GetModels ==
    Commit([St EXCEPT !.held = getModels(St)], "getModels", 0)

\* The caller of getModels removes the last element of the array it was
\* handed.
PopHeld ==
    /\ held # <<>>
    /\ Commit([St EXCEPT !.held = SubSeq(@, 1, Len(@) - 1)], "held.pop", 0)

\* An owner replaces the markers it reports for a resource; the marker
\* service publishes the change when there is one.
MarkerChangeOne(owner, resource, markers) ==
    LET id == MODEL_ID(resource)
        others == SelectSeq(markerStore[id], LAMBDA m : m.owner # owner)
    IN /\ markers # <<>> \/ others # markerStore[id]
       /\ Commit(MarkerService_onMarkerChanged(
                     [St EXCEPT !.markerStore[id] = others \o markers], <<resource>>),
                 "markerService.changeOne", 0)

\* An owner replaces the markers it reports for a resource, and the marker
\* service publishes the change later, in a batch (MarkerChanged).
MarkerStoreChange(owner, resource, markers) ==
    LET id == MODEL_ID(resource)
        others == SelectSeq(markerStore[id], LAMBDA m : m.owner # owner)
    IN /\ markers # <<>> \/ others # markerStore[id]
       /\ Commit([St EXCEPT !.markerStore[id] = others \o markers],
                 "markerService.store", 0)

\* The marker service publishes a change naming a batch of resources.
MarkerChanged(changedResources) ==
    /\ subscriptions.marker = "active"
    /\ Commit(_handleMarkerChange(St, changedResources),
              "onMarkerChanged", 0)

UpdateConfiguration(config) ==
    /\ subscriptions.config = "active"
    /\ Commit(readConfig([St EXCEPT !.configuration =
                                        [now |-> config, before |-> @.now]],
                          config),
              "onDidUpdateConfiguration", 0)

\* dispose() of the service, which its owner may call again.
Dispose ==
    /\ subscriptions.configDisposals < MaxDisposeCalls
    /\ Commit(ModelServiceImpl_dispose(St), "dispose", 0)

\* ------------------------------------------------------- specification

StartRegistry(S) ==
    /\ models = S.models
    /\ modelData = S.modelData
    /\ buffers = S.buffers
    /\ markerStore = S.markerStore
    /\ creationOptions = S.creationOptions
    /\ promises = S.promises
    /\ subscriptions = S.subscriptions
    /\ configuration = S.configuration
    /\ held = S.held
    /\ counts = S.counts
    /\ published = S.published
    /\ translated = S.translated
    /\ last = [op |-> "constructor", threw |-> FALSE, model |-> 0,
               removes |-> <<>>, batch |-> <<>>]

\* The registry constructed, and no embedded editor.
Start(S) == StartRegistry(S) /\ embedded = NoEmbedded

Init == Start(Constructed(EmptyConfig))

Next ==
    \/ \E v \in LifecycleValues, m \in CreateModeArgs, u \in URIs :
          CreateModel(v, m, u)
    \/ \E b \in ModelRefs, m \in SetModeArgs : SetMode(b, m)
    \/ \E p \in promises : ResolveMode(p)
    \/ \E u \in URIs : DestroyModel(u)
    \/ \E b \in ModelRefs : DisposeModel(b)
    \/ \E o \in LifecycleOwners, u \in URIs, ms \in LifecycleMarkerLists :
          MarkerChangeOne(o, u, ms)
    \/ \E batch \in LifecycleBatches : MarkerChanged(batch)

Spec == Init /\ [][Next]_vars

\* ------------------------------------- modes and options, without markers

\* The registry while modes are set and resolved, buffers disposed and the
\* configuration updated; the marker service holds nothing.
NextModes ==
    \/ \E v \in LifecycleValues, m \in CreateModeArgs, u \in URIs :
          CreateModel(v, m, u)
    \/ \E b \in ModelRefs, m \in SetModeArgs : SetMode(b, m)
    \/ \E p \in promises : ResolveMode(p)
    \/ \E u \in URIs : DestroyModel(u)
    \/ \E b \in ModelRefs : DisposeModel(b)
    \/ \E c \in LifecycleConfigs : UpdateConfiguration(c)

SpecModes == Init /\ [][NextModes]_vars

\* --------------------------------------------- the translator, exercised

\* The resource whose markers are translated.
TranslatedURI == [scheme |-> "file", path |-> "b"]

\* A word character, a blank and a separator make the lines.
TranslatorAlphabet == {"o", " ", "."}
TranslatorLines == SeqsUpTo(TranslatorAlphabet, MaxLineLen)
TwoLineSamples == {<<>>, <<"o">>, <<" ", "o">>, <<" ", " ">>}

\* Every text of one line, texts of two lines, and "foo".
TranslatorValues ==
    {StringValue(<<l>>) : l \in TranslatorLines}
        \cup {StringValue(<<l1, l2>>) : l1, l2 \in TwoLineSamples}
        \cup LifecycleValues

\* Raw markers: lines from 1 to past the last line, columns from 1 to past
\* the longest line and the unbounded column, in either order.
TranslatorLineNumbers == 1 .. 3
TranslatorColumns == (1 .. MaxLineLen + 2) \cup {MAX_VALUE}
TranslatorMarkers ==
    {Marker("linter", "Error", sl, sc, el, ec) :
        sl \in TranslatorLineNumbers, sc \in TranslatorColumns,
        el \in TranslatorLineNumbers, ec \in TranslatorColumns}

\* What the marker service holds for the resource: one raw marker, or what
\* the linter reports.
TranslatorStores ==
    {<<m>> : m \in TranslatorMarkers} \cup OwnerMarkerLists("linter")

InitT ==
    \E store \in TranslatorStores :
        Start([Constructed(EmptyConfig) EXCEPT
                  !.markerStore[MODEL_ID(TranslatedURI)] = store])

\* The buffer is created once, over any of the texts; the marker service
\* then publishes changes of the resource.
NextT ==
    \/ /\ models[MODEL_ID(TranslatedURI)] = 0
       /\ \E v \in TranslatorValues : CreateModel(v, NoMode, TranslatedURI)
    \/ MarkerChanged(<<TranslatedURI>>)

SpecT == InitT /\ [][NextT]_vars

\* ------------------------------------------------ teardown, with markers

\* What an owner reports for a resource in a run that tears buffers and the
\* registry down: nothing, or the linter two markers and tsc one.
TeardownMarkerLists(owner) ==
    IF owner = "linter"
    THEN {<<>>, <<Marker("linter", "Error", 1, 1, 1, 1),
                  Marker("linter", "Warning", 2, 1, 2, MAX_VALUE)>>}
    ELSE {<<>>, <<Marker("tsc", "Warning", 1, 1, 1, MAX_VALUE)>>}

\* Buffers on the transient schemes and on file are created and disposed,
\* by the registry or by another owner; the owners of markers report them
\* for the resources that have no buffer (tsc for the in-memory resource
\* only).
NextTeardown ==
    \/ \E v \in LifecycleValues, u \in TeardownURIs : CreateModel(v, NoMode, u)
    \/ \E u \in TeardownURIs : DestroyModel(u)
    \/ \E b \in ModelRefs : DisposeModel(b)
    \/ \E o \in Owners, u \in TeardownURIs :
          /\ models[MODEL_ID(u)] = 0
          /\ o = "tsc" => u.scheme = "inmemory"
          /\ \E ms \in TeardownMarkerLists(o) : MarkerChangeOne(o, u, ms)

SpecTeardown == Init /\ [][NextTeardown]_vars

\* Buffers are created and disposed and the registry is disposed, more than
\* once.
NextDispose ==
    \/ \E v \in LifecycleValues, u \in URIs : CreateModel(v, NoMode, u)
    \/ \E u \in URIs : DestroyModel(u)
    \/ \E b \in ModelRefs : DisposeModel(b)
    \/ Dispose

SpecDispose == Init /\ [][NextDispose]_vars

\* Buffers are created and destroyed while a caller looks them up, asks for
\* the array of them and changes the array it was handed.
NextLookups ==
    \/ \E v \in LifecycleValues, u \in URIs : CreateModel(v, NoMode, u)
    \/ \E u \in URIs : DestroyModel(u)
    \/ \E u \in URIs : GetModel(u)
    \/ GetModels
    \/ PopHeld

SpecLookups == Init /\ [][NextLookups]_vars

\* ------------------------------------------- severities, and many markers

\* A severity that is none of Severity's.
OtherSeverity == "undefined"

SeverityCycle == <<"Ignore", "Info", "Warning", "Error", OtherSeverity>>

\* The point on "foo", with each severity.
SeverityMarkers ==
    {Marker("linter", SeverityCycle[k], 1, 1, 1, 1) : k \in 1..Len(SeverityCycle)}

\* One marker more than setMarkers asks for, the severities in turn.
ManyMarkers ==
    [i \in 1..(MARKER_TAKE + 1) |->
       Marker("linter", SeverityCycle[(i % Len(SeverityCycle)) + 1], 1, 1, 1, 1)]

SeverityStores == SeqsUpTo(SeverityMarkers, MaxOwnerMarkers) \cup {ManyMarkers}

InitSeverity ==
    \E store \in SeverityStores :
        Start([Constructed(EmptyConfig) EXCEPT
                  !.markerStore[MODEL_ID(TranslatedURI)] = store])

\* The marker service holds markers of every severity for a resource whose
\* buffer is created, destroyed and created again.
NextSeverity ==
    \/ \E v \in LifecycleValues : CreateModel(v, NoMode, TranslatedURI)
    \/ DestroyModel(TranslatedURI)

SpecSeverity == InitSeverity /\ [][NextSeverity]_vars

\* ------------------------------------------- batches of marker changes

\* What the linter reports for "foo": nothing, the point, or the point and
\* the whole line.
BatchMarkerLists ==
    {<<>>,
     <<Marker("linter", "Error", 1, 1, 1, 1)>>,
     <<Marker("linter", "Error", 1, 1, 1, 1),
       Marker("linter", "Warning", 1, 1, 1, MAX_VALUE)>>}

\* Buffers are created and destroyed while the linter changes what it
\* reports; the marker service publishes the changes in batches, which
\* arrive after the markers they name have changed.
NextMarkers ==
    \/ \E v \in LifecycleValues, u \in URIs : CreateModel(v, NoMode, u)
    \/ \E u \in URIs : DestroyModel(u)
    \/ \E u \in URIs, ms \in BatchMarkerLists : MarkerStoreChange("linter", u, ms)
    \/ \E batch \in Batches : MarkerChanged(batch)

SpecMarkers == Init /\ [][NextMarkers]_vars

\* ------------------------------------------- batches of buffer events

BatchShapes == SeqsUpTo({"L", "D", "O"}, MaxBatchLen) \ {<<>>}

\* Buffers are created and destroyed while they hand the registry batches
\* of events, with a dispose event anywhere in a batch.
NextEvents ==
    \/ \E v \in LifecycleValues, u \in URIs : CreateModel(v, NoMode, u)
    \/ \E u \in URIs : DestroyModel(u)
    \/ \E b \in ModelRefs, shape \in BatchShapes, l \in Languages :
          EmitBatch(b, shape, l)

SpecEvents == Init /\ [][NextEvents]_vars

\* ------------------------------------------- the configuration, updated

\* { editor: { tabSize: "4", detectIndentation: false } } and the same with
\* the tab size "2".
TabFour ==
    [EmptyConfig EXCEPT !.tabSize = Str(<<"4">>), !.detectIndentation = Bool(FALSE)]
TabTwo == [TabFour EXCEPT !.tabSize = Str(<<"2">>)]

\* Tab sizes parseInt makes nothing of, and end-of-line values that are
\* neither "\r\n" nor "\n".
UnparseableTabSizes == {Str(<<"x">>), Str(<<>>), Bool(TRUE)}
UnrecognizedEols == {Str(<<"c", "r", "l", "f">>), Num(1)}

\* The snapshots the configuration service hands out in a run.
ConfigSnapshots ==
    {EmptyConfig, TabFour, TabTwo,
     [TabTwo EXCEPT !.eol = Str(<<"\r", "\n">>)],
     [TabTwo EXCEPT !.tabSize = Str(<<"x">>)],
     [TabFour EXCEPT !.insertSpaces = Str(<<"f", "a", "l", "s", "e">>)]}

\* Buffers are created from a string or from a raw text and destroyed while
\* the configuration service publishes snapshots.
NextConfig ==
    \/ \E v \in Values, u \in URIs : CreateModel(v, NoMode, u)
    \/ \E u \in URIs : DestroyModel(u)
    \/ \E c \in ConfigSnapshots : UpdateConfiguration(c)

SpecConfig == Init /\ [][NextConfig]_vars

\* ------------------------------------------------------------ properties

\* ------------------------------------------------ the embedded editor

\* The options a caller hands the widget, at construction and later.
OptionArguments ==
    {NoOptions,
     [NoOptions EXCEPT !.readOnly = "true"],
     [NoOptions EXCEPT !.readOnly = "false", !.lineNumbers = "off"],
     [NoOptions EXCEPT !.scrollbarVertical = "hidden"]}

\* The raw configurations of the parent editor.
ParentConfigurations ==
    {[readOnly |-> "false", lineNumbers |-> "on", scrollbarVertical |-> "auto"],
     [readOnly |-> "true", lineNumbers |-> "off", scrollbarVertical |-> "hidden"],
     [NoOptions EXCEPT !.lineNumbers = "on"]}

\* parentEditor.onDidChangeConfiguration: the parent has the configuration c
\* when the widget's listener runs.
ParentConfigurationChanged(c) ==
    /\ embedded.op # "none"
    /\ c # embedded.parent
    /\ embedded' = [_onParentConfigurationChanged(
                        [embedded EXCEPT !.parent = c, !.applied = <<>>])
                      EXCEPT !.op = "onDidChangeConfiguration"]
    /\ UNCHANGED <<models, modelData, buffers, markerStore, creationOptions,
                   promises, subscriptions, configuration, held, counts,
                   published, translated, last>>

UpdateOptions(newOptions) ==
    /\ embedded.op # "none"
    /\ Len(embedded.given) <= MaxUpdates
    /\ embedded' = [EmbeddedCodeEditorWidget_updateOptions(
                        [embedded EXCEPT !.applied = <<>>], newOptions)
                      EXCEPT !.given = Append(@, newOptions),
                             !.op = "updateOptions"]
    /\ UNCHANGED <<models, modelData, buffers, markerStore, creationOptions,
                   promises, subscriptions, configuration, held, counts,
                   published, translated, last>>

\* A widget constructed over a parent editor, next to a registry.
InitEmbedded ==
    /\ StartRegistry(Constructed(EmptyConfig))
    /\ \E options \in OptionArguments, parentRaw \in ParentConfigurations :
          embedded = EmbeddedCodeEditorWidget_constructor(options, parentRaw)

NextEmbedded ==
    \/ \E c \in ParentConfigurations : ParentConfigurationChanged(c)
    \/ \E newOptions \in OptionArguments : UpdateOptions(newOptions)

SpecEmbedded == InitEmbedded /\ [][NextEmbedded]_vars

\* ------------------------------------------- every operation of a run

\* The registry under all that reaches it in a run: buffers are created,
\* destroyed and disposed by their owners, pending modes resolve, the
\* linter's markers change and the configuration is updated.
NextRegistry ==
    \/ \E v \in LifecycleValues, m \in CreateModeArgs, u \in URIs :
          CreateModel(v, m, u)
    \/ \E p \in promises : ResolveMode(p)
    \/ \E u \in URIs : DestroyModel(u)
    \/ \E b \in ModelRefs : DisposeModel(b)
    \/ \E o \in LifecycleOwners, u \in URIs, ms \in LifecycleMarkerLists :
          MarkerChangeOne(o, u, ms)
    \/ \E c \in LifecycleConfigs : UpdateConfiguration(c)

SpecRegistry == Init /\ [][NextRegistry]_vars

\* The entries that have not been disposed.
LiveEntries == {md \in ModelRefs : modelData[md].model # 0}
KeyOfEntry(md) == MODEL_ID(buffers[modelData[md].model].uri)

\* The notifications of one type about one model, in the order published.
Notifications(pub, type, b) ==
    SelectSeq(pub, LAMBDA n : n.type = type /\ n.model = b)

\* The decoration descriptors that the markers of a resource translate to
\* on a buffer of the given lines.
ExpectedDecorations(lines, markers) ==
    {[range |-> validateRange(lines, _createDecorationRange(lines, markers[i]).range),
      options |-> _createDecorationOption(markers[i])] : i \in 1..Len(markers)}

\* C1: in every reachable state there is at most one live entry per resource
\* key and it is the one the map holds under that key; createModel on a key
\* that has a live entry throws, returns no model and leaves the map, the
\* entries, their tracked decoration ids and everything else as they were,
\* with no notification published.
C1_DuplicateKeyThrows ==
    /\ \A md1, md2 \in LiveEntries : KeyOfEntry(md1) = KeyOfEntry(md2) => md1 = md2
    /\ \A md \in LiveEntries : models[KeyOfEntry(md)] = md
    /\ \A u \in URIs :
          models[MODEL_ID(u)] # 0 =>
             \A v \in Values, m \in CreateModeArgs :
                createModel(St, v, m, u) = [state |-> Threw(St), model |-> 0]

\* A createModel on a key that is held has thrown.
C1_Witness ==
    /\ last.op = "createModel" /\ last.threw /\ last.model = 0
    /\ published = <<>>
    /\ \E id \in ModelIds : models[id] # 0

\* C2: disposing a registered buffer through destroyModel(key) and through
\* the buffer's own dispose() end in the same state with the same
\* notifications: exactly one "removed" for the buffer, published when
\* getModel(key) already returns null, and the buffer is gone from getModel
\* and getModels; over a run a buffer has one "removed" exactly when it has
\* been disposed.
C2_DisposalByAnyPath ==
    /\ \A u \in URIs :
          LET b == getModel(St, u)
          IN b # 0 =>
                \A D \in {destroyModel(St, u)} :
                   LET removed == Notifications(D.published, "removed", b)
                   IN /\ D = Model_dispose(St, b)
                      /\ Len(removed) = 1
                      /\ removed[1].lookup = 0
                      /\ D.counts[b].removed = 1
                      /\ D.buffers[b].isDisposed
                      /\ getModel(D, u) = 0
                      /\ \A i \in 1..Len(getModels(D)) : getModels(D)[i] # b
    /\ \A b \in ModelRefs :
          counts[b].removed = IF buffers[b].isDisposed THEN 1 ELSE 0

\* destroyModel has disposed a registered buffer and "removed" was published.
C2_Witness ==
    /\ last.op = "destroyModel"
    /\ Len(published) = 1 /\ published[1].type = "removed"
    /\ published[1].lookup = 0
    /\ buffers[published[1].model].isDisposed

\* C3: createModel on a free key publishes "added" for the model it returns
\* as the last thing it does: at that moment getModel(key) returns the model
\* and the entry tracks the decorations of the markers the marker service
\* held for the resource.
C3_AddedAfterMarkers ==
    \A u \in URIs :
       (models[MODEL_ID(u)] = 0 /\ FreeModels(St) # {}) =>
          \A v \in Values, m \in CreateModeArgs :
           \A r \in {createModel(St, v, m, u)} :
             LET pub == r.state.published
                 n == pub[Len(pub)]
             IN /\ ~r.state.threw /\ r.model # 0
                /\ Len(pub) >= 1
                /\ n.type = "added" /\ n.model = r.model
                /\ n.lookup = r.model
                /\ n.tracked = ExpectedDecorations(v.lines, markerStore[MODEL_ID(u)])
                /\ getModel(r.state, u) = r.model
                /\ Len(Notifications(pub, "added", r.model)) = 1

\* createModel has returned a model for a resource that had markers.
C3_Witness ==
    /\ last.op = "createModel" /\ ~last.threw /\ last.model # 0
    /\ published # <<>>
    /\ published[Len(published)].type = "added"
    /\ published[Len(published)].tracked # {}
    /\ published[Len(published)].lookup = last.model

\* What a notification says: its type, its model and the old mode id.
Brief(pub) ==
    [i \in 1..Len(pub) |->
       [type |-> pub[i].type, model |-> pub[i].model, oldModeId |-> pub[i].oldModeId]]

ModeChanged(b, oldModeId) ==
    [type |-> "modeChanged", model |-> b, oldModeId |-> oldModeId]

\* The pending mode promises of models that are not disposed.
PendingLive == {p \in promises : ~buffers[p.model].isDisposed}

\* C4: createModel with no mode or with a mode promise still pending creates
\* and registers the buffer at once with the plaintext mode; while its mode is
\* pending a live buffer is returned by getModel, takes marker changes and
\* takes option updates; when the pending mode resolves and the buffer is
\* live, the buffer gets the resolved mode.
C4_PlaintextUntilResolved ==
    /\ \A u \in URIs :
          (models[MODEL_ID(u)] = 0 /\ FreeModels(St) # {}) =>
             \A v \in LifecycleValues, m \in {NoMode, Promise("javascript", FALSE)} :
                \A r \in {createModel(St, v, m, u)} :
                   /\ ~r.state.threw /\ r.model # 0
                   /\ r.state.buffers[r.model].languageId = PLAINTEXT
                   /\ ~r.state.buffers[r.model].isDisposed
                   /\ getModel(r.state, u) = r.model
                   /\ Notifications(r.state.published, "modeChanged", r.model) = <<>>
                   /\ m.kind = "promise" =>
                         [model |-> r.model, mode |-> m.id] \in r.state.promises
    /\ \A p \in PendingLive :
          LET b == p.model
              u == buffers[b].uri
              id == MODEL_ID(u)
              resolved == ModeContinuation([St EXCEPT !.promises = @ \ {p}], b, p.mode)
          IN /\ getModel(St, u) = b
             /\ \A ms \in LifecycleMarkerLists :
                   TrackedDecorations(
                       MarkerService_onMarkerChanged(
                           [St EXCEPT !.markerStore[id] = ms], <<u>>), id)
                     = ExpectedDecorations(buffers[b].lines, ms)
             /\ \A c \in LifecycleConfigs :
                   \A updated \in {readConfig(St, c)} :
                      /\ updated.buffers[b].options.tabSize = 2
                      /\ ~updated.buffers[b].options.guessed
             /\ \A R \in {resolved} :
                   R.buffers[b].languageId = p.mode /\ ~R.threw

\* A pending mode has resolved on a live buffer, which now has the mode.
C4_Witness ==
    /\ last.op = "resolveMode" /\ last.model # 0
    /\ ~buffers[last.model].isDisposed
    /\ buffers[last.model].languageId = "javascript"
    /\ Brief(published) = <<ModeChanged(last.model, PLAINTEXT)>>

\* C5: when a pending mode resolves after its model has been disposed, the
\* continuation changes nothing: the model keeps its mode, no notification
\* is published, nothing is thrown.
C5_ResolutionAfterDisposal ==
    \A p \in promises :
       buffers[p.model].isDisposed =>
          LET S0 == [St EXCEPT !.promises = @ \ {p}]
          IN ModeContinuation(S0, p.model, p.mode) = S0

\* A pending mode has resolved on a disposed buffer, which is still plaintext.
C5_Witness ==
    /\ last.op = "resolveMode" /\ last.model # 0 /\ ~last.threw
    /\ buffers[last.model].isDisposed
    /\ buffers[last.model].languageId = PLAINTEXT
    /\ published = <<>>

\* C6: every operation publishes one notification per lifecycle transition
\* it makes and no other: a successful createModel one "added" for its model
\* (with one "mode changed" from plaintext before it when it was handed a
\* completed promise of another mode), a disposal of a registered buffer one
\* "removed", a mode change of a registered live buffer one "mode changed"
\* with the previous mode id and the model; a marker change none.
C6_OncePerTransition ==
    /\ \A u \in URIs :
          (models[MODEL_ID(u)] = 0 /\ FreeModels(St) # {}) =>
             \A v \in LifecycleValues, m \in CreateModeArgs :
                \A r \in {createModel(St, v, m, u)} :
                   LET added == [type |-> "added", model |-> r.model,
                                 oldModeId |-> "none"]
                   IN Brief(r.state.published) =
                         IF m.kind = "promise" /\ m.done /\ m.id # PLAINTEXT
                         THEN <<ModeChanged(r.model, PLAINTEXT), added>>
                         ELSE <<added>>
    /\ \A b \in ModelRefs :
          (buffers[b].exists /\ ~buffers[b].isDisposed) =>
             /\ Brief(Model_dispose(St, b).published) =
                   <<[type |-> "removed", model |-> b, oldModeId |-> "none"]>>
             /\ \A m \in SetModeArgs :
                   Brief(setMode(St, b, m).published) =
                      IF m.kind = "mode" /\ m.id # buffers[b].languageId
                      THEN <<ModeChanged(b, buffers[b].languageId)>>
                      ELSE <<>>
    /\ \A p \in promises :
          Brief(ModeContinuation(St, p.model, p.mode).published) =
             IF ~buffers[p.model].isDisposed /\ p.mode # buffers[p.model].languageId
             THEN <<ModeChanged(p.model, buffers[p.model].languageId)>>
             ELSE <<>>
    /\ \A batch \in Batches : _handleMarkerChange(St, batch).published = <<>>
    /\ \A b \in ModelRefs :
          counts[b].added = IF buffers[b].exists THEN 1 ELSE 0

\* setMode has changed the mode of a registered buffer from javascript.
C6_Witness ==
    /\ last.op = "setMode"
    /\ Len(published) = 1
    /\ published[1].type = "modeChanged"
    /\ published[1].oldModeId = "javascript"
    /\ buffers[published[1].model].languageId = PLAINTEXT
    /\ counts[published[1].model] = [added |-> 1, removed |-> 0]

\* C7: on a key that has no entry, whether never used or already removed,
\* destroyModel and a marker change naming the key change nothing, publish
\* nothing and do not throw, getModel returns null, and a marker change
\* naming the key and another does to the other what it does without it.
C7_TotalOnUnknownKeys ==
    \A u \in URIs :
       models[MODEL_ID(u)] = 0 =>
          /\ destroyModel(St, u) = St
          /\ getModel(St, u) = 0
          /\ _handleMarkerChange(St, <<u>>) = St
          /\ MarkerService_onMarkerChanged(St, <<u>>) = St
          /\ \A w \in URIs :
                /\ _handleMarkerChange(St, <<u, w>>) = _handleMarkerChange(St, <<w>>)
                /\ _handleMarkerChange(St, <<w, u>>) = _handleMarkerChange(St, <<w>>)

\* destroyModel was called when no key had an entry, one of them removed
\* before.
C7_Witness ==
    /\ last.op = "destroyModel" /\ ~last.threw
    /\ published = <<>>
    /\ \A id \in ModelIds : models[id] = 0
    /\ \E b \in ModelRefs : buffers[b].isDisposed

\* A marker change for the resource, as a fresh operation.
Reapplied(S, u) ==
    _handleMarkerChange([S EXCEPT !.published = <<>>, !.translated = NoTranslation],
                        <<u>>)

\* C8: when the marker service publishes a change for a resource whose
\* markers and buffer are as they were at the last application, the entry
\* tracks the same decoration ids with the same ranges as before, and it does
\* so again on the next one; the buffer holds the same decorations.
C8_ReapplicationIdempotent ==
    \A u \in URIs :
       LET id == MODEL_ID(u)
           md == models[id]
           b == modelData[md].model
       IN md # 0 =>
             \A S1 \in {Reapplied(St, u)} : \A S2 \in {Reapplied(S1, u)} :
                /\ S1.modelData[md].markerDecorations = modelData[md].markerDecorations
                /\ S2.modelData[md].markerDecorations = S1.modelData[md].markerDecorations
                /\ TrackedDecorations(S1, id) = TrackedDecorations(St, id)
                /\ TrackedDecorations(S2, id) = TrackedDecorations(S1, id)
                /\ S1.buffers[b].decorations = buffers[b].decorations
                /\ S2.buffers[b].decorations = S1.buffers[b].decorations

\* A marker change was applied to an entry whose whole-line marker the
\* first application had trimmed to the line's first non-whitespace column.
C8_Witness ==
    /\ last.op = "onMarkerChanged"
    /\ translated.model # 0
    /\ modelData[translated.model].markerDecorations # <<>>
    /\ \E i \in 1..Len(translated.markers) :
          translated.markers[i] = Marker("linter", "Warning", 2, 2, 2, MAX_VALUE)

\* The range the buffer clamps a raw marker to.
Clamped(lines, rawMarker) == validateRange(lines, RangeOfMarker(rawMarker))

\* C9: for every marker setMarkers read whose clamped range is zero-width
\* at a position where the buffer finds a word, the descriptor emitted for
\* it spans that word on that line, from the word's start column to its end
\* column; "foo" with a marker at (1,1)-(1,1) gives (1,1)-(1,4).
C9_ZeroWidthOnWord ==
    /\ translated.model # 0 =>
          \A i \in 1..Len(translated.markers) :
             LET lines == buffers[translated.model].lines
             IN \A c \in {Clamped(lines, translated.markers[i])} :
                \A word \in {getWordAtPosition(lines, c.startLineNumber,
                                                c.startColumn)} :
                (Range_isEmpty(c) /\ word # NoWord) =>
                   translated.decorations[i].range =
                      [startLineNumber |-> c.startLineNumber,
                       startColumn |-> word.startColumn,
                       endLineNumber |-> c.startLineNumber,
                       endColumn |-> word.endColumn]
    /\ _createDecorationRange(<< <<"f", "o", "o">> >>,
                              Marker("linter", "Error", 1, 1, 1, 1)).range
          = [startLineNumber |-> 1, startColumn |-> 1,
             endLineNumber |-> 1, endColumn |-> 4]

\* The markers of "o.o" were translated, one of them zero-width at the end
\* of the second word.
C9_Witness ==
    /\ translated.model # 0
    /\ buffers[translated.model].lines = << <<"o", ".", "o">> >>
    /\ translated.markers = <<Marker("linter", "Error", 1, 4, 1, 4)>>
    /\ translated.decorations[1].range =
          [startLineNumber |-> 1, startColumn |-> 3,
           endLineNumber |-> 1, endColumn |-> 4]

\* C10: for every marker setMarkers read whose clamped range is zero-width
\* on an empty line, the descriptor emitted for it is that zero-width range.
C10_ZeroWidthOnEmptyLine ==
    translated.model # 0 =>
       \A i \in 1..Len(translated.markers) :
          LET lines == buffers[translated.model].lines
          IN \A c \in {Clamped(lines, translated.markers[i])} :
             (Range_isEmpty(c) /\ lines[c.startLineNumber] = <<>>) =>
                /\ translated.decorations[i].range = c
                /\ Range_isEmpty(translated.decorations[i].range)

\* A marker was translated on the empty second line of a buffer.
C10_Witness ==
    /\ translated.model # 0
    /\ Len(buffers[translated.model].lines) = 2
    /\ buffers[translated.model].lines[2] = <<>>
    /\ translated.markers = <<Marker("linter", "Error", 2, 1, 2, 1)>>
    /\ translated.decorations[1].range =
          [startLineNumber |-> 2, startColumn |-> 1,
           endLineNumber |-> 2, endColumn |-> 1]

\* A raw marker of a whole line whose clamped range c is on one line and is
\* not empty.
WholeLine(m, c) ==
    /\ m.startColumn = 1 /\ m.endColumn = MAX_VALUE
    /\ c.startLineNumber = c.endLineNumber
    /\ ~Range_isEmpty(c)

\* The columns of a line that hold a character that is not whitespace.
NonWhitespaceColumns(line) == {k \in 1..Len(line) : ~IsWhitespace(line[k])}

\* C11: for every whole-line marker setMarkers read (raw start column 1, raw
\* end column unbounded, clamped range on one line and not empty), the
\* descriptor emitted keeps the clamped line and end column, and its start
\* column is the line's first non-whitespace column when the line has one
\* and it is strictly less than the end column, the clamped start column in
\* every other case.
C11_WholeLineStart ==
    translated.model # 0 =>
       \A i \in 1..Len(translated.markers) :
          LET lines == buffers[translated.model].lines
          IN \A c \in {Clamped(lines, translated.markers[i])} :
             WholeLine(translated.markers[i], c) =>
                \A cols \in {NonWhitespaceColumns(lines[c.startLineNumber])} :
                   translated.decorations[i].range =
                      [c EXCEPT !.startColumn =
                          IF cols # {} /\ Min(cols) < c.endColumn
                          THEN Min(cols) ELSE c.startColumn]

\* A whole-line marker was translated on a line of two blanks, and the
\* descriptor starts at column 0.
C11_Witness ==
    /\ translated.model # 0
    /\ buffers[translated.model].lines = << <<" ", " ">> >>
    /\ translated.markers = <<Marker("linter", "Error", 1, 1, 1, MAX_VALUE)>>
    /\ translated.decorations[1].range =
          [startLineNumber |-> 1, startColumn |-> 0,
           endLineNumber |-> 1, endColumn |-> 3]

\* The buffers of the live entries.
LiveBuffers == RegisteredModels(St)

\* The snapshot has detectIndentation, and it is off.
DetectOff(c) ==
    c.detectIndentation.t # "undefined" /\ ~ConfigBoolean(c.detectIndentation)

\* The snapshot has the tab size "4" with detectIndentation off, and the
\* registry's options are the ones read from it.
TabFourDetectOff ==
    /\ configuration.now.tabSize = Str(<<"4">>)
    /\ DetectOff(configuration.now)

\* The update of the snapshot that changes its tab size to "2".
ToTabTwo == [configuration.now EXCEPT !.tabSize = Str(<<"2">>)]

\* C12 as stated: an update that changes editor.tabSize from "4" to "2"
\* with detectIndentation off sets the tab size of every live buffer to 2
\* and leaves the insert-spaces and the trim-auto-whitespace value of every
\* live buffer as it was before the update.
C12_OnlyTabSizeChanges ==
    TabFourDetectOff =>
       \A R \in {readConfig(St, ToTabTwo)} :
          \A b \in LiveBuffers :
             /\ R.buffers[b].options.tabSize = 2
             /\ R.buffers[b].options.insertSpaces = buffers[b].options.insertSpaces
             /\ R.buffers[b].options.trimAutoWhitespace =
                   buffers[b].options.trimAutoWhitespace

\* C12 as amended: an update that changes editor.tabSize from "4" to "2"
\* with detectIndentation off changes of the registry's options the tab size
\* only, and sets on every live buffer the tab size to 2 and the
\* insert-spaces and trim-auto-whitespace values to the registry's: a live
\* buffer that had the registry's values keeps them, one that had its own
\* gets the registry's.  No other buffer is touched and nothing is published.
C12_TabSizeAndRegistryValues ==
    TabFourDetectOff =>
       \A R \in {readConfig(St, ToTabTwo)} :
          /\ R.creationOptions = [creationOptions EXCEPT !.tabSize = 2]
          /\ R.optionCalls = LiveBuffers
          /\ R.published = <<>> /\ ~R.threw
          /\ \A b \in ModelRefs :
                IF b \in LiveBuffers
                THEN R.buffers[b] =
                        [buffers[b] EXCEPT
                           !.options.guessed = FALSE,
                           !.options.tabSize = 2,
                           !.options.insertSpaces = creationOptions.insertSpaces,
                           !.options.trimAutoWhitespace =
                              creationOptions.trimAutoWhitespace]
                ELSE R.buffers[b] = buffers[b]

\* The snapshot went from tab size "4" to "2" with detectIndentation off
\* while a buffer made from a string and one made from a raw text were live:
\* both have the tab size 2 and the registry's insert-spaces value.
C12_Witness ==
    /\ last.op = "onDidUpdateConfiguration"
    /\ configuration.before = TabFour /\ configuration.now = TabTwo
    /\ Cardinality(LiveBuffers) = 2
    /\ \E b \in LiveBuffers : buffers[b].lines = << <<"f", "o", "o">> >>
    /\ \E b \in LiveBuffers : buffers[b].lines = << <<" ", "x">>, <<>> >>
    /\ \A b \in LiveBuffers :
          /\ buffers[b].options.tabSize = 2
          /\ buffers[b].options.insertSpaces = creationOptions.insertSpaces

\* The end-of-line values readConfig recognizes, and the option of each.
RecognizedEols == {Str(<<"\r", "\n">>), Str(<<"\n">>)}
EolOf(v) == IF v = Str(<<"\r", "\n">>) THEN "CRLF" ELSE "LF"

\* C13: an update of the snapshot that changes files.eol to "\r\n" or "\n"
\* sets the registry's default end of line to it and changes no other
\* option of the registry; no buffer that exists is changed or asked to
\* update its options or detect its indentation, nothing is published; a
\* buffer created afterwards from a string has the new default end of line.
C13_EolForNewBuffersOnly ==
    \A e \in RecognizedEols :
       \A R \in {readConfig(St, [configuration.now EXCEPT !.eol = e])} :
          /\ R.creationOptions = [creationOptions EXCEPT !.defaultEOL = EolOf(e)]
          /\ R.buffers = buffers
          /\ R.optionCalls = {}
          /\ R.published = <<>> /\ ~R.threw
          /\ \A u \in URIs :
                (R.models[MODEL_ID(u)] = 0 /\ FreeModels(R) # {}) =>
                   \A N \in {createModel(R, StringValue(<< <<"f", "o", "o">> >>),
                                         NoMode, u)} :
                      N.state.buffers[N.model].options.defaultEOL = EolOf(e)

\* The snapshot got the end of line "\r\n" while a buffer was live, which
\* still has the end of line LF; the registry's default is CRLF.
C13_Witness ==
    /\ last.op = "onDidUpdateConfiguration"
    /\ configuration.before = TabTwo
    /\ configuration.now = [TabTwo EXCEPT !.eol = Str(<<"\r", "\n">>)]
    /\ creationOptions.defaultEOL = "CRLF"
    /\ \E b \in LiveBuffers : buffers[b].options.defaultEOL = "LF"

\* C14: an update of the snapshot whose editor.tabSize parseInt makes
\* nothing of leaves the registry's tab size as it was, an update whose
\* files.eol is neither "\r\n" nor "\n" leaves the registry's default end of
\* line as it was, and neither throws.
C14_MalformedKeepsPrevious ==
    /\ \A bad \in UnparseableTabSizes :
          \A R \in {readConfig(St, [configuration.now EXCEPT !.tabSize = bad])} :
             R.creationOptions.tabSize = creationOptions.tabSize /\ ~R.threw
    /\ \A bad \in UnrecognizedEols :
          \A R \in {readConfig(St, [configuration.now EXCEPT !.eol = bad])} :
             R.creationOptions.defaultEOL = creationOptions.defaultEOL /\ ~R.threw

\* The snapshot went from the tab size "2" to the tab size "x", and the
\* registry's tab size went from 2 to the default.
C14_Witness ==
    /\ last.op = "onDidUpdateConfiguration" /\ ~last.threw
    /\ configuration.before = TabTwo
    /\ configuration.now = [TabTwo EXCEPT !.tabSize = Str(<<"x">>)]
    /\ creationOptions.tabSize = DEFAULT_TAB_SIZE

\* The string "false".
StrFalse == Str(<<"f", "a", "l", "s", "e">>)

\* C15: the registry's insert-spaces, detect-indentation and
\* trim-auto-whitespace options are booleans in every reachable state, and
\* an update of the snapshot that has the string "false" for one of the
\* three makes that option the boolean false.
C15_BooleansNotStrings ==
    /\ creationOptions.insertSpaces \in BOOLEAN
    /\ creationOptions.detectIndentation \in BOOLEAN
    /\ creationOptions.trimAutoWhitespace \in BOOLEAN
    /\ readConfig(St, [configuration.now EXCEPT !.insertSpaces = StrFalse])
          .creationOptions.insertSpaces = FALSE
    /\ readConfig(St, [configuration.now EXCEPT !.detectIndentation = StrFalse])
          .creationOptions.detectIndentation = FALSE
    /\ readConfig(St, [configuration.now EXCEPT !.trimAutoWhitespace = StrFalse])
          .creationOptions.trimAutoWhitespace = FALSE

\* The snapshot got editor.insertSpaces "false", and the registry's
\* insert-spaces option is false.
C15_Witness ==
    /\ last.op = "onDidUpdateConfiguration"
    /\ configuration.before.insertSpaces = Undefined
    /\ configuration.now.insertSpaces = StrFalse
    /\ creationOptions.insertSpaces = FALSE

\* The options of a buffer that is handed the registry's creation options.
RegistryOptions ==
    [guessed |-> creationOptions.detectIndentation,
     tabSize |-> creationOptions.tabSize,
     insertSpaces |-> creationOptions.insertSpaces,
     trimAutoWhitespace |-> creationOptions.trimAutoWhitespace,
     defaultEOL |-> creationOptions.defaultEOL]

\* C16 as stated: the buffer createModel constructs on a free key has the
\* registry's current creation options, whether its content is a string or
\* a raw text of pre-split lines.
C16_RegistryOptionsAtConstruction ==
    \A u \in URIs :
       (models[MODEL_ID(u)] = 0 /\ FreeModels(St) # {}) =>
          \A v \in Values :
             \A N \in {createModel(St, v, NoMode, u)} :
                N.state.buffers[N.model].options = RegistryOptions

\* C16 as amended: the buffer createModel constructs on a free key from a
\* string has the registry's current creation options; the buffer it
\* constructs from a raw text of pre-split lines is handed no options and
\* has the ones the raw text carries, whatever the registry's are.
C16_RegistryOptionsForStrings ==
    \A u \in URIs :
       (models[MODEL_ID(u)] = 0 /\ FreeModels(St) # {}) =>
          \A v \in Values :
             \A N \in {createModel(St, v, NoMode, u)} :
                N.state.buffers[N.model].options =
                   IF v.kind = "string" THEN RegistryOptions ELSE v.options

\* While the registry's tab size is 2, createModel has made a buffer from a
\* raw text, which has the tab size 8 of the raw text, and before it one from
\* a string, which has the registry's options.
C16_Witness ==
    /\ last.op = "createModel" /\ ~last.threw /\ last.model # 0
    /\ creationOptions.tabSize = 2
    /\ buffers[last.model].lines = << <<" ", "x">>, <<>> >>
    /\ buffers[last.model].options.tabSize = 8
    /\ \E b \in LiveBuffers :
          /\ buffers[b].lines = << <<"f", "o", "o">> >>
          /\ buffers[b].options = RegistryOptions

\* The schemes the claim names: Schemas.inMemory, internal and vscode.
ClaimedTransient == {"inmemory", "private", "vscode"}

\* C17: disposing a registered buffer, through destroyModel or through the
\* buffer's own dispose(), publishes one "removed"; when the resource of the
\* buffer is on a transient scheme the marker service holds no marker for
\* it, of any owner, when "removed" is published and afterwards, and holds
\* for every other resource what it held; when the resource is on another
\* scheme the marker service holds what it held, and no marker was removed.
C17_TransientMarkersRemoved ==
    \A b \in LiveBuffers :
       LET u == buffers[b].uri
           id == MODEL_ID(u)
       IN \A D \in {Model_dispose(St, b)} :
             \A removed \in {Notifications(D.published, "removed", b)} :
                /\ destroyModel(St, u) = D
                /\ Len(removed) = 1
                /\ removed[1].markers = D.markerStore[id]
                /\ \A other \in ModelIds \ {id} :
                      D.markerStore[other] = markerStore[other]
                /\ IF u.scheme \in ClaimedTransient
                   THEN /\ D.markerStore[id] = <<>>
                        /\ \A k \in 1..Len(markerStore[id]) :
                              \E c \in 1..Len(D.removeCalls) :
                                 D.removeCalls[c] = markerStore[id][k].owner
                   ELSE /\ D.markerStore[id] = markerStore[id]
                        /\ D.removeCalls = <<>>

\* destroyModel has disposed the buffer of the in-memory resource, for which
\* the linter had reported two markers and tsc one: the three were removed
\* before "removed" was published.
C17_Witness ==
    /\ last.op = "destroyModel"
    /\ Len(last.removes) = 3
    /\ \E c \in 1..3 : last.removes[c] = "tsc"
    /\ \E c \in 1..3 : last.removes[c] = "linter"
    /\ Len(published) = 1 /\ published[1].type = "removed"
    /\ published[1].markers = <<>>
    /\ buffers[published[1].model].uri.scheme = "inmemory"
    /\ markerStore[MODEL_ID(buffers[published[1].model].uri)] = <<>>

\* What the registry and its collaborators hold.
Registry ==
    <<models, modelData, buffers, markerStore, creationOptions, promises,
      subscriptions, configuration, counts>>

\* The buffers of the entries that have not been disposed.
BuffersOfLiveEntries == {modelData[md].model : md \in LiveEntries}

\* C18: in every reachable state getModel returns the buffer of the live
\* entry of the key, null when there is none, and getModels returns an array
\* that holds the buffers of the live entries and nothing else, each once; a
\* call of getModel or getModels changes nothing the registry or its
\* collaborators hold and publishes nothing; the array getModels handed out
\* is changed only by its holder, not by later operations of the registry,
\* and a change its holder makes to it changes nothing of the registry.
C18_ReadOnlyLookups ==
    /\ [](/\ \A u \in URIs :
                getModel(St, u) =
                   IF \E md \in LiveEntries : KeyOfEntry(md) = MODEL_ID(u)
                   THEN modelData[CHOOSE md \in LiveEntries :
                                     KeyOfEntry(md) = MODEL_ID(u)].model
                   ELSE 0
          /\ \A ms \in {getModels(St)} :
                /\ {ms[k] : k \in 1..Len(ms)} = BuffersOfLiveEntries
                /\ Len(ms) = Cardinality(BuffersOfLiveEntries))
    /\ [][last'.op \in {"getModel", "getModels", "held.pop"} =>
             /\ Registry' = Registry
             /\ published' = <<>>
             /\ ~last'.threw]_vars
    /\ [][last'.op = "getModels" => held' = getModels(St)]_vars
    /\ [][last'.op \notin {"getModels", "held.pop"} => held' = held]_vars

\* getModels handed out the array of two buffers and destroyModel then
\* disposed one of them: the array still holds the two, getModels now
\* returns the other alone.
C18_Witness ==
    /\ last.op = "destroyModel"
    /\ Len(held) = 2
    /\ \E k \in 1..2 : buffers[held[k]].isDisposed
    /\ Len(getModels(St)) = 1
    /\ \E k \in 1..2 : held[k] = getModels(St)[1]


\* ------------------------------------------------------------------ C19
\* The number of "L" in a shape.
LanguageChanges(shape) == Cardinality({i \in 1..Len(shape) : shape[i] = "L"})

\* C19: when a batch of a registered buffer's events holds a dispose event,
\* at any position, the registry does what it does for the dispose event
\* alone: it drops the buffer's entry and publishes the one removal, and
\* publishes no mode change for the language changes of the batch, before
\* or after the dispose event; a batch without a dispose event publishes
\* one mode change for each language change in it, with the old language.
C19_DisposePrecedes ==
    \A b \in LiveBuffers : \A shape \in BatchShapes :
      \A old \in {buffers[b].languageId} :
        \A D \in {_onModelEvents(St, b, BatchOf(shape, old))} :
          IF HasEvent(shape, "D")
          THEN /\ D = _onModelEvents(St, b, <<DisposeEvent>>)
               /\ Brief(D.published) = <<[type |-> "removed", model |-> b, oldModeId |-> "none"]>>
               /\ D.models[MODEL_ID(buffers[b].uri)] = 0
               /\ D.modelData[b].model = 0
          ELSE /\ Len(D.published) = LanguageChanges(shape)
               /\ \A k \in 1..Len(D.published) :
                     /\ D.published[k].type = "modeChanged"
                     /\ D.published[k].model = b
                     /\ D.published[k].oldModeId = old
               /\ D.models = models
               /\ D.modelData = modelData

\* A batch with a language change before its dispose event was delivered,
\* and the one notification of it is the removal.
C19_Witness ==
    /\ last.op = "model.emit"
    /\ Len(last.batch) >= 2
    /\ last.batch[1].type = "ModelLanguageChanged"
    /\ \E i \in 2..Len(last.batch) : last.batch[i].type = "ModelDispose"
    /\ Brief(published) = <<[type |-> "removed", model |-> last.model, oldModeId |-> "none"]>>
    /\ buffers[last.model].isDisposed


\* ------------------------------------------------------------------ C20
TornDown == subscriptions.configDisposals >= 1

NeverReleasedTwice ==
    /\ subscriptions.markerDisposals <= 1
    /\ subscriptions.configDisposals <= 1
    /\ \A md \in ModelRefs : modelData[md].listenerDisposals <= 1

NoneLeftAfterTeardown ==
    TornDown =>
        /\ subscriptions.marker = "disposed"
        /\ subscriptions.config = "disposed"
        /\ \A md \in ModelRefs : modelData[md].listener # "active"

\* C20: each subscription (an entry's subscription to its buffer's events,
\* the subscription to the marker service, the subscription to the
\* configuration service) is released exactly once: after any sequence of
\* createModel, buffer disposals and dispose() calls, none has been released
\* twice and, once dispose() has been called, none is still held.
C20_ReleasedExactlyOnce == NeverReleasedTwice /\ NoneLeftAfterTeardown

\* dispose() has just run while a buffer was registered.
C20_Witness ==
    /\ last.op = "dispose"
    /\ \E md \in LiveEntries : buffers[modelData[md].model].exists


\* ------------------------------------------------------------------ C21
InBatch(batch, id) == \E k \in 1..Len(batch) : MODEL_ID(batch[k]) = id

\* The entry's tracked decorations are those its resource's markers
\* translate to.
InStep(md) ==
    TrackedDecorations(St, KeyOfEntry(md)) =
        ExpectedDecorations(buffers[modelData[md].model].lines, markerStore[KeyOfEntry(md)])

\* C21: when the marker service publishes a change naming a batch of
\* resources, every live entry whose key is in the batch tracks, and its
\* buffer holds, the decorations that the resource's markers translate to,
\* and every live entry whose key is not in the batch keeps its tracked
\* decoration ids and its buffer's decorations; the map and the entries of
\* the registry are the same and nothing is published.
C21_BatchAppliedToItsKeys ==
    \A batch \in Batches : \A D \in {_handleMarkerChange(St, batch)} :
       /\ D.models = models
       /\ D.published = <<>>
       /\ ~D.threw
       /\ \A md \in LiveEntries :
             \A b \in {modelData[md].model} :
                IF InBatch(batch, KeyOfEntry(md))
                THEN /\ D.modelData[md].model = b
                     /\ TrackedDecorations(D, KeyOfEntry(md)) =
                           ExpectedDecorations(buffers[b].lines, markerStore[KeyOfEntry(md)])
                     /\ {[range |-> d.range, options |-> d.options] :
                            d \in D.buffers[b].decorations} =
                           ExpectedDecorations(buffers[b].lines, markerStore[KeyOfEntry(md)])
                     /\ Len(D.modelData[md].markerDecorations) =
                           Len(markerStore[KeyOfEntry(md)])
                ELSE /\ D.modelData[md] = modelData[md]
                     /\ D.buffers[b] = buffers[b]

\* A batch has been applied while two buffers were registered: one tracks
\* what its markers translate to, the other, whose markers have changed
\* too, still tracks what it tracked.
C21_Witness ==
    /\ last.op = "onMarkerChanged"
    /\ translated.model # 0
    /\ \E md1, md2 \in LiveEntries :
          /\ md1 # md2
          /\ modelData[md1].model = translated.model
          /\ modelData[md1].markerDecorations # <<>>
          /\ InStep(md1)
          /\ ~InStep(md2)


\* ------------------------------------------------------------------ C22
IdsOf(ids) == {ids[k] : k \in 1..Len(ids)}

\* The entries that have been disposed.
DisposedEntries == {md \in ModelRefs : modelData[md].listener = "null"}

\* C22: after any sequence of marker updates the ids an entry tracks are
\* the ids the buffer returned for the last delta, one for each descriptor
\* of it, and the buffer holds these decorations and no other: none of an
\* earlier application is left; when a marker change is applied the entry
\* tracks what deltaDecorations returns for its old ids and the new
\* descriptors; when the entry is disposed its buffer holds no decoration
\* and the entry tracks none.
C22_TrackedIdsAreTheBuffers ==
    /\ \A md \in LiveEntries : \A b \in {modelData[md].model} :
          /\ IdsOf(modelData[md].markerDecorations) = DecorationIds(buffers[b])
          /\ Cardinality(DecorationIds(buffers[b])) = Len(modelData[md].markerDecorations)
          /\ Cardinality(buffers[b].decorations) = Len(modelData[md].markerDecorations)
          /\ \A u \in {buffers[b].uri} : \A D \in {_handleMarkerChange(St, <<u>>)} :
                \A r \in {Model_deltaDecorations(buffers[b], modelData[md].markerDecorations,
                                                  D.translated.decorations)} :
                   /\ D.translated.model = b
                   /\ D.modelData[md].markerDecorations = r.ids
                   /\ Len(r.ids) = Len(markerStore[MODEL_ID(u)])
                   /\ DecorationIds(D.buffers[b]) = IdsOf(r.ids)
          /\ \A D \in {_onModelDisposing(St, b)} :
                /\ D.buffers[b].decorations = {}
                /\ D.modelData[md].markerDecorations = <<>>
    /\ \A md \in DisposedEntries :
          /\ modelData[md].markerDecorations = <<>>
          /\ buffers[md].decorations = {}

\* A marker change left an entry tracking the one decoration of its
\* resource's one marker, while another buffer has been disposed.
C22_Witness ==
    /\ last.op = "onMarkerChanged"
    /\ translated.model # 0
    /\ Len(translated.markers) = 1
    /\ Len(modelData[translated.model].markerDecorations) = 1
    /\ Cardinality(buffers[translated.model].decorations) = 1
    /\ DisposedEntries # {}


\* ------------------------------------------------------------------ C23
\* A range of the buffer: its lines are lines of the buffer, its columns
\* are columns of these lines, and its start is not after its end.
WithinBuffer(lines, r) ==
    /\ 1 <= r.startLineNumber
    /\ r.startLineNumber <= r.endLineNumber
    /\ r.endLineNumber <= getLineCount(lines)
    /\ 1 <= r.startColumn
    /\ r.startColumn <= getLineMaxColumn(lines, r.startLineNumber)
    /\ 1 <= r.endColumn
    /\ r.endColumn <= getLineMaxColumn(lines, r.endLineNumber)
    /\ r.startLineNumber = r.endLineNumber => r.startColumn <= r.endColumn

\* C23: for every marker setMarkers read, also one whose lines or columns
\* lie outside the buffer or whose line holds only whitespace, the range
\* of the descriptor emitted lies within the buffer: its lines are between
\* 1 and the line count, and its columns between 1 and the maximum column
\* of their line, the start not after the end.
C23_RangeWithinBuffer ==
    translated.model # 0 =>
       \A i \in 1..Len(translated.markers) :
          WithinBuffer(buffers[translated.model].lines, translated.decorations[i].range)

\* A whole-line marker was translated on a line of blanks only, its end
\* line past the last line of the buffer: the descriptor starts at column 0.
C23_Witness ==
    /\ translated.model # 0
    /\ buffers[translated.model].lines = << <<" ", " ">> >>
    /\ translated.markers = <<Marker("linter", "Error", 1, 1, 3, MAX_VALUE)>>
    /\ translated.decorations[1].range.startColumn = 0


\* ------------------------------------------------------------------ C24
\* C24: for every marker setMarkers read, also one whose line numbers are
\* past the last line of the buffer, every query the translator makes to
\* the buffer by line number (the word at a position, the first and the
\* last non-whitespace column, the maximum column) names a line between 1
\* and the buffer's line count.
C24_QueriesWithinBuffer ==
    translated.model # 0 =>
       \A i \in 1..Len(translated.markers) :
          \A q \in LineQueries(buffers[translated.model].lines, translated.markers[i]) :
             LegalLine(buffers[translated.model].lines, q.lineNumber)

\* A marker on the third line was translated on a buffer of one line of
\* blanks: the translator asked for a word, for the last non-whitespace
\* column and for the maximum column.
C24_Witness ==
    /\ translated.model # 0
    /\ buffers[translated.model].lines = << <<" ", " ">> >>
    /\ translated.markers = <<Marker("linter", "Error", 3, 2, 3, 2)>>
    /\ Cardinality(LineQueries(buffers[translated.model].lines,
                               translated.markers[1])) = 3


\* ------------------------------------------------------------------ C25
\* A marker whose clamped range c is zero-width, with no word under it, on
\* a line that is not empty.
ZeroWidthNoWord(lines, c) ==
    /\ Range_isEmpty(c)
    /\ lines[c.startLineNumber] # <<>>
    /\ getWordAtPosition(lines, c.startLineNumber, c.startColumn) = NoWord

\* The range of one column that ends at `limit` when the marker's column
\* is at or beyond it, and the marker's column with the next otherwise.
OneColumn(c, limit) ==
    IF c.endColumn >= limit
    THEN [c EXCEPT !.startColumn = limit - 1, !.endColumn = limit]
    ELSE [c EXCEPT !.endColumn = c.endColumn + 1]

\* The column after the last character of a line that is not whitespace,
\* the line's maximum column when it has none.
VisibleEnd(line) ==
    IF NonWhitespaceColumns(line) = {} THEN Len(line) + 1
    ELSE Max(NonWhitespaceColumns(line)) + 1

\* C25 as claimed: for every marker setMarkers read whose clamped range is
\* zero-width with no word under it on a line that is not empty, the
\* descriptor is one column wide on that line: the character before the
\* line's maximum column when the marker's column is at or beyond it, the
\* marker's column widened by one to the right otherwise.
C25_OneColumnBeforeLineEnd ==
    translated.model # 0 =>
       \A i \in 1..Len(translated.markers) :
          LET lines == buffers[translated.model].lines
          IN \A c \in {Clamped(lines, translated.markers[i])} :
             ZeroWidthNoWord(lines, c) =>
                translated.decorations[i].range =
                   OneColumn(c, getLineMaxColumn(lines, c.startLineNumber))

\* C25 as the code has it: the descriptor is one column wide on that line:
\* the character before the column that follows the line's last
\* non-whitespace character (before the line's maximum column when the
\* line holds only whitespace) when the marker's column is at or beyond
\* that column, the marker's column widened by one to the right otherwise.
C25_OneColumnBeforeVisibleEnd ==
    translated.model # 0 =>
       \A i \in 1..Len(translated.markers) :
          LET lines == buffers[translated.model].lines
          IN \A c \in {Clamped(lines, translated.markers[i])} :
             ZeroWidthNoWord(lines, c) =>
                \A r \in {translated.decorations[i].range} :
                   /\ r = OneColumn(c, VisibleEnd(lines[c.startLineNumber]))
                   /\ r.startLineNumber = c.startLineNumber
                   /\ r.endLineNumber = c.startLineNumber
                   /\ r.endColumn = r.startColumn + 1
                   /\ WithinBuffer(lines, r)

\* A zero-width marker was translated at the third column of "o  ", past
\* the line's last character that is not whitespace: the descriptor covers
\* the "o".
C25_Witness ==
    /\ translated.model # 0
    /\ buffers[translated.model].lines = << <<"o", " ", " ">> >>
    /\ translated.markers = <<Marker("linter", "Error", 1, 3, 1, 3)>>
    /\ translated.decorations[1].range =
          [startLineNumber |-> 1, startColumn |-> 1,
           endLineNumber |-> 1, endColumn |-> 2]


\* ------------------------------------------------------------------ C26
\* C26: translating the markers of a resource changes neither the text of
\* the buffer nor a field of a marker it is handed: after setMarkers the
\* marker service holds, for the resource, the markers setMarkers read, and
\* _createDecorationRange leaves each of them as it was handed it.
C26_TranslatorIsPure ==
    /\ translated.model # 0 =>
          \A lines \in {buffers[translated.model].lines} :
             /\ MarkerService_read(markerStore[MODEL_ID(buffers[translated.model].uri)],
                                   MARKER_TAKE) = translated.markers
             /\ \A i \in 1..Len(translated.markers) :
                   _createDecorationRange(lines, translated.markers[i]).rawMarker =
                      translated.markers[i]
    /\ \A md \in LiveEntries : \A b \in {modelData[md].model} :
          _handleMarkerChange(St, <<buffers[b].uri>>).buffers[b].lines = buffers[b].lines

\* The whole-line marker of " o" was translated, and the marker service
\* holds it with the start column 2.
C26_Witness ==
    /\ translated.model # 0
    /\ buffers[translated.model].lines = << <<" ", "o">> >>
    /\ translated.markers = <<Marker("linter", "Error", 1, 1, 1, MAX_VALUE)>>
    /\ markerStore[MODEL_ID(TranslatedURI)] =
          <<Marker("linter", "Error", 1, 2, 1, MAX_VALUE)>>


\* ------------------------------------------------------------------ C27
\* The style of a severity: no class and no colour for Ignore, the warning
\* class and colour for Warning and Info, the error class and colour for
\* Error and for anything else.
StyleOf(severity) ==
    IF severity = "Ignore"
    THEN [className |-> "undefined", color |-> "undefined"]
    ELSE IF severity \in {"Warning", "Info"}
    THEN [className |-> "EditorWarningDecoration", color |-> "rgba(18,136,18,0.7)"]
    ELSE [className |-> "EditorErrorDecoration", color |-> "rgba(255,18,18,0.7)"]

\* C27: setMarkers reads the first 500 markers the marker service holds for
\* the resource, and no more, and emits one descriptor for each marker it
\* read, in the order read, a marker of severity Ignore included; the
\* descriptor has the style of the marker's severity; the entry tracks one
\* decoration for each.
C27_OneDescriptorPerMarker ==
    translated.model # 0 =>
       \A store \in {markerStore[MODEL_ID(buffers[translated.model].uri)]} :
          /\ Len(translated.markers) =
                (IF Len(store) <= MARKER_TAKE THEN Len(store) ELSE MARKER_TAKE)
          /\ \A i \in 1..Len(translated.markers) : translated.markers[i] = store[i]
          /\ Len(translated.decorations) = Len(translated.markers)
          /\ \A i \in 1..Len(translated.markers) :
                /\ translated.decorations[i].options =
                      StyleOf(translated.markers[i].severity)
                /\ translated.decorations[i].range =
                      _createDecorationRange(buffers[translated.model].lines,
                                             translated.markers[i]).range
          /\ Len(modelData[translated.model].markerDecorations) = Len(translated.markers)

\* The marker service held 501 markers when the buffer was created: 500
\* descriptors were emitted, the first for a marker of severity Info, the
\* fifth for one of severity Ignore.
C27_Witness ==
    /\ last.op = "createModel" /\ ~last.threw
    /\ translated.model # 0
    /\ Len(markerStore[MODEL_ID(TranslatedURI)]) = MARKER_TAKE + 1
    /\ Len(translated.decorations) = MARKER_TAKE
    /\ translated.markers[1].severity = "Info"
    /\ translated.markers[5].severity = "Ignore"
    /\ translated.decorations[5].options.className = "undefined"


\* ------------------------------------------------------------------ C28
\* The field of a snapshot is absent.
Absent(v) == v.t = "undefined"

\* C28: an update of the configuration that omits a field leaves the
\* creation option of that field as it was before the update, for each of
\* tabSize, insertSpaces, detectIndentation, trimAutoWhitespace and eol.
C28_AbsentMeansNoChange ==
    \A c \in ConfigSnapshots : \A D \in {readConfig(St, c)} :
       /\ Absent(c.tabSize) => D.creationOptions.tabSize = creationOptions.tabSize
       /\ Absent(c.insertSpaces) =>
             D.creationOptions.insertSpaces = creationOptions.insertSpaces
       /\ Absent(c.detectIndentation) =>
             D.creationOptions.detectIndentation = creationOptions.detectIndentation
       /\ Absent(c.trimAutoWhitespace) =>
             D.creationOptions.trimAutoWhitespace = creationOptions.trimAutoWhitespace
       /\ Absent(c.eol) => D.creationOptions.defaultEOL = creationOptions.defaultEOL

\* The configuration had tabSize "2" and detectIndentation false, and the
\* update that followed had no field: the tab size is the default again.
C28_Witness ==
    /\ last.op = "onDidUpdateConfiguration"
    /\ configuration.before = TabTwo
    /\ configuration.now = EmptyConfig
    /\ creationOptions.tabSize = DEFAULT_TAB_SIZE
    /\ creationOptions.detectIndentation


\* ------------------------------------------------------------------ C29
\* The option sets an update may yield.
OptionSets ==
    [tabSize : {2, DEFAULT_TAB_SIZE}, insertSpaces : BOOLEAN,
     detectIndentation : BOOLEAN, trimAutoWhitespace : BOOLEAN,
     defaultEOL : {"LF", "CRLF"}]

SameIndentOptions(a, b) ==
    /\ a.detectIndentation = b.detectIndentation
    /\ a.insertSpaces = b.insertSpaces
    /\ a.tabSize = b.tabSize
    /\ a.trimAutoWhitespace = b.trimAutoWhitespace

\* C29: an option set equal to the current one in detect-indentation,
\* insert-spaces, tab-size and trim-auto-whitespace replaces the current
\* one and no buffer is touched; any other replaces it and every live
\* buffer, and no other, is updated: with detect-indentation on the buffer
\* is asked to detect its indentation, biased by the set's insert-spaces
\* and tab-size, and gets the set's trim-auto-whitespace flag; with it off
\* the buffer gets the set's insert-spaces, tab-size and
\* trim-auto-whitespace.  Nothing else of a buffer changes.
C29_UpdateUnlessSame ==
    \A newOpts \in OptionSets : \A D \in {_setModelOptions(St, newOpts)} :
       /\ D.creationOptions = newOpts
       /\ D.models = models /\ D.modelData = modelData
       /\ D.published = <<>> /\ ~D.threw
       /\ IF SameIndentOptions(creationOptions, newOpts)
          THEN D.optionCalls = {} /\ D.buffers = buffers
          ELSE /\ D.optionCalls = LiveBuffers
               /\ \A b \in ModelRefs :
                     IF b \notin LiveBuffers THEN D.buffers[b] = buffers[b]
                     ELSE D.buffers[b] =
                            [buffers[b] EXCEPT
                               !.options =
                                  [guessed |-> newOpts.detectIndentation,
                                   insertSpaces |-> newOpts.insertSpaces,
                                   tabSize |-> newOpts.tabSize,
                                   trimAutoWhitespace |-> newOpts.trimAutoWhitespace,
                                   defaultEOL |-> @.defaultEOL]]

\* The configuration went from tabSize "2" with detection off to one with
\* no field: the buffer made from a raw text, which had options of its own,
\* was asked to detect its indentation with the default tab size as bias.
C29_Witness ==
    /\ last.op = "onDidUpdateConfiguration"
    /\ configuration.before = TabTwo
    /\ configuration.now = EmptyConfig
    /\ \E b \in LiveBuffers :
          /\ buffers[b].options.defaultEOL = "CRLF"
          /\ buffers[b].options.guessed
          /\ buffers[b].options.tabSize = DEFAULT_TAB_SIZE
          /\ buffers[b].options.trimAutoWhitespace


\* ------------------------------------------------------------------ C30
\* The state as the next operation finds it.
Afresh(S) ==
    [S EXCEPT !.published = <<>>, !.translated = NoTranslation,
              !.removeCalls = <<>>, !.delivered = <<>>, !.optionCalls = {}]

\* C30: markers are applied to registered buffers only, never to a
\* disposed one: while a buffer is torn down, by destroyModel or by its own
\* dispose(), no marker is translated and no decoration applied, also when
\* the teardown removes the resource's markers and the marker service
\* publishes that change at once; the buffer is left without decorations,
\* and a marker change naming the resource afterwards finds no entry and
\* changes nothing.
C30_NoMarkersOnTornDownBuffer ==
    /\ translated.model # 0 =>
          /\ ~buffers[translated.model].isDisposed
          /\ translated.model \in LiveBuffers
    /\ \A b \in LiveBuffers : \A D \in {Model_dispose(St, b)} :
          /\ D.translated = NoTranslation
          /\ D.buffers[b].decorations = {}
          /\ D.modelData[b].markerDecorations = <<>>
          /\ D.models[MODEL_ID(buffers[b].uri)] = 0
          /\ D.buffers[b].isDisposed
          /\ MarkerService_onMarkerChanged(Afresh(D), <<buffers[b].uri>>) = Afresh(D)

\* Another owner disposed the buffer of the resource on the internal
\* scheme, for which the linter had reported two markers: they were removed
\* during the teardown and no marker was translated.
C30_Witness ==
    /\ last.op = "model.dispose"
    /\ Len(last.removes) = 2
    /\ translated = NoTranslation
    /\ Len(published) = 1 /\ published[1].type = "removed"
    /\ buffers[published[1].model].uri.scheme = "private"
    /\ buffers[published[1].model].isDisposed
    /\ buffers[published[1].model].decorations = {}


\* ------------------------------------------------------------------ C31
\* How many notifications of a type the registry had published about the
\* buffer b, over all its operations, before the i-th one of the last
\* operation.
PublishedBefore(b, type, i) ==
    counts[b][type]
        - Len(Notifications(SubSeq(published, i, Len(published)), type, b))

\* The i-th notification of the last operation keeps the order "added",
\* then "mode changed" any number of times, then "removed" at most once.
InLifecycleOrder(i) ==
    LET n == published[i]
    IN /\ PublishedBefore(n.model, "removed", i) = 0
       /\ n.type = "added" => \A j \in 1..(i - 1) : published[j].model # n.model
       /\ n.type # "added" => PublishedBefore(n.model, "added", i) = 1

\* C31: what the registry publishes about a buffer made by createModel is
\* "added", then "mode changed" any number of times, then "removed" at most
\* once: nothing about the buffer comes before its "added" and nothing after
\* its "removed", whenever the mode createModel was handed resolves.
C31_AddedFirstRemovedLast ==
    /\ \A i \in 1..Len(published) : InLifecycleOrder(i)
    /\ \A b \in ModelRefs : counts[b].added <= 1 /\ counts[b].removed <= 1

\* createModel was handed a promise that had completed: the continuation
\* ran inside `then`, and "mode changed" from plaintext was published about
\* the new buffer before its "added".
C31_Witness ==
    /\ last.op = "createModel" /\ ~last.threw /\ last.model # 0
    /\ Brief(published) =
          <<ModeChanged(last.model, PLAINTEXT),
            [type |-> "added", model |-> last.model, oldModeId |-> "none"]>>
    /\ buffers[last.model].languageId = "javascript"
    /\ counts[last.model] = [added |-> 1, removed |-> 0]


\* ------------------------------------------------------------------ C32
\* "added" minus "removed", over the buffers 1..n.
RECURSIVE AddedLessRemoved(_)
AddedLessRemoved(n) ==
    IF n = 0 THEN 0
    ELSE counts[n].added - counts[n].removed + AddedLessRemoved(n - 1)

RegisteredKeys == {id \in ModelIds : models[id] # 0}

\* C32: after every operation the "added" notifications published so far,
\* less the "removed" ones, are as many as the registry has entries; the
\* buffer of every entry is live; and every entry is under the key of its
\* own buffer's resource.
C32_RegistryMatchesNotifications ==
    /\ AddedLessRemoved(MaxModels) = Cardinality(RegisteredKeys)
    /\ \A id \in RegisteredKeys :
          /\ modelData[models[id]].model # 0
          /\ buffers[modelData[models[id]].model].exists
          /\ ~buffers[modelData[models[id]].model].isDisposed
          /\ MODEL_ID(buffers[modelData[models[id]].model].uri) = id

\* Two buffers were added and one of them has been destroyed: one "removed"
\* is published, the other buffer is the registry's one entry.
C32_Witness ==
    /\ last.op = "destroyModel"
    /\ Len(published) = 1 /\ published[1].type = "removed"
    /\ Cardinality(RegisteredKeys) = 1
    /\ \E b \in ModelRefs \ {published[1].model} :
          /\ counts[b] = [added |-> 1, removed |-> 0]
          /\ ~buffers[b].isDisposed
          /\ models[MODEL_ID(buffers[b].uri)] = b


\* ------------------------------------------------------------------ C33
\* The options given so far mixed in their order, later values winning.
RECURSIVE Accumulated(_)
Accumulated(given) ==
    IF given = <<>> THEN NoOptions
    ELSE objects_mixin(Accumulated(SubSeq(given, 1, Len(given) - 1)),
                       given[Len(given)])

\* C33: after the construction of the embedded editor and after every
\* change of the parent's configuration and every updateOptions, the
\* options last applied to the editor are the overwrite options, which are
\* the constructor's options mixed with every argument of updateOptions,
\* later values winning; a change of the parent's configuration applies the
\* parent's raw configuration and after it the overwrite options, so every
\* overwrite option is what the editor holds, and no overwrite option is
\* lost.
C33_OverwriteOptionsWin ==
    embedded.op # "none" =>
       /\ embedded.overwrite = Accumulated(embedded.given)
       /\ embedded.applied # <<>>
       /\ embedded.applied[Len(embedded.applied)] = embedded.overwrite
       /\ embedded.op = "onDidChangeConfiguration" =>
             embedded.applied = <<embedded.parent, embedded.overwrite>>
       /\ \A k \in OptionKeys :
             embedded.overwrite[k] # Unset => embedded.raw[k] = embedded.overwrite[k]

\* The widget was constructed with readOnly "true", updateOptions made it
\* "false" and turned the line numbers off, and then the parent's
\* configuration changed to readOnly "true" with line numbers off and a
\* hidden scrollbar: the editor is not read-only, and has the parent's
\* scrollbar.
C33_Witness ==
    /\ embedded.op = "onDidChangeConfiguration"
    /\ Len(embedded.given) = 2
    /\ embedded.given[1].readOnly = "true"
    /\ embedded.given[2].readOnly = "false"
    /\ embedded.parent.readOnly = "true"
    /\ embedded.raw =
          [readOnly |-> "false", lineNumbers |-> "off", scrollbarVertical |-> "hidden"]
    /\ embedded.overwrite.scrollbarVertical = Unset

=============================================================================
